---------------------------- MODULE Spec2Model ----------------------------
(***************************************************************************)
(* A model of the static-analysis core of the codebase visualizer:         *)
(*   - GraphBuilder        (graph/graphBuilder.ts)                         *)
(*   - EntryPointDetector  (analyzers/entryPointDetector.ts)               *)
(*   - ImportAnalyzer      (analyzers/importAnalyzer.ts)                   *)
(* Strings are TLA+ strings; the string functions of the source            *)
(* (endsWith, includes, toLowerCase, template concatenation) are computed   *)
(* character by character with Len, SubSeq and \o.                          *)
(***************************************************************************)
EXTENDS Naturals, Integers, Sequences, FiniteSets, TLC

VARIABLES
    phase,       \* which step of the modelled component ran last
    allNodes,    \* WorkspaceAnalyzer.analyze: allNodes (input of the builder)
    allEdges,    \* WorkspaceAnalyzer.analyze: allEdges (input of the builder)
    graph,       \* the CodeGraph returned by buildFromEntryPoints
    query,       \* the arguments of the last query on the graph
    answer,      \* what the last query returned
    frames,          \* filterByDepth: the call stack of traverse
    visited,         \* filterByDepth: visited
    nodesToInclude,  \* filterByDepth: nodesToInclude
    edgesToInclude,  \* filterByDepth: edgesToInclude
    expansions,      \* how many times traverse got past its guard, per node id
    document,        \* the file handed to a language parser's parse
    result,          \* what that parse settled with
    filesToParse,    \* WorkspaceAnalyzer.analyze: filesToParse, in insertion order
    parseOutcomes,   \* analyze, step 5: how the parse of each file so far went
    errors,          \* WorkspaceAnalyzer.analyze: errors
    disk,            \* ImportAnalyzer: the paths vscode.workspace.fs.stat finds
    importing,       \* buildDependencyMap: the file and the imports analysed in it
    dependencies,    \* buildDependencyMap: what its promise settled with
    settled,         \* buildDependencyMap: how its promise settled
    workspace,       \* the files of the workspace folder
    listing,         \* the order in which vscode.workspace.findFiles lists them
    uniqueEntryPoints, \* detectEntryPoints: the candidates, deduplicated and sorted by score
    entryPoints      \* what detectEntryPoints returned

graphVars == <<allNodes, allEdges, graph, query, answer>>

travVars == <<frames, visited, nodesToInclude, edgesToInclude, expansions>>

entryVars == <<workspace, listing, uniqueEntryPoints, entryPoints>>

importVars == <<disk, importing, dependencies, settled>>

parserVars == <<document, result>>

analyzeVars == <<filesToParse, parseOutcomes, errors, parserVars>>

vars == <<phase, graphVars, travVars, entryVars, importVars, analyzeVars>>

\* What the actions of one component leave alone.
notGraph == <<travVars, entryVars, importVars, analyzeVars>>

notTrav == <<entryVars, importVars, analyzeVars>>

notEntry == <<graphVars, travVars, importVars, analyzeVars>>

notImport == <<graph, query, answer, travVars, entryVars, analyzeVars>>

(***************************************************************************)
(* Bounds of the model.                                                    *)
(***************************************************************************)
MaxNodes == 3
MaxEdges == 3
MaxFilterEdges == 5
MaxDepth == 3
MaxTravEdges == 3
MaxDepEdges == 3
MaxImports == 3

(***************************************************************************)
(* String helpers (JavaScript String.prototype).                           *)
(***************************************************************************)
endsWith(s, t) ==
    /\ Len(s) >= Len(t)
    /\ SubSeq(s, Len(s) - Len(t) + 1, Len(s)) = t

startsWith(s, t) ==
    /\ Len(s) >= Len(t)
    /\ SubSeq(s, 1, Len(t)) = t

includes(s, t) ==
    \E i \in 1..(Len(s) - Len(t) + 1) : SubSeq(s, i, i + Len(t) - 1) = t

charAt(s, i) == SubSeq(s, i, i)

UpperCase == "ABCDEFGHIJKLMNOPQRSTUVWXYZ"
LowerCase == "abcdefghijklmnopqrstuvwxyz"

lowerChar(c) ==
    IF \E k \in 1..Len(UpperCase) : charAt(UpperCase, k) = c
    THEN charAt(LowerCase, CHOOSE k \in 1..Len(UpperCase) : charAt(UpperCase, k) = c)
    ELSE c

RECURSIVE toLowerCase(_)
toLowerCase(s) ==
    IF s = "" THEN "" ELSE lowerChar(charAt(s, 1)) \o toLowerCase(SubSeq(s, 2, Len(s)))

\* The index of the last c in s, 0 if there is none.
lastIndexOf(s, c) ==
    IF \E i \in 1..Len(s) : charAt(s, i) = c
    THEN CHOOSE i \in 1..Len(s) :
            charAt(s, i) = c /\ \A j \in (i + 1)..Len(s) : charAt(s, j) # c
    ELSE 0

\* path.basename and path.dirname, for absolute POSIX paths.
basename(p) == SubSeq(p, lastIndexOf(p, "/") + 1, Len(p))

dirname(p) == SubSeq(p, 1, lastIndexOf(p, "/") - 1)

\* s.split(sep).length for a one-character separator
splitLength(s, sep) == 1 + Cardinality({i \in 1..Len(s) : charAt(s, i) = sep})

(***************************************************************************)
(* GraphBuilder                                                            *)
(***************************************************************************)
NoGraph == [nodes |-> <<>>, edges |-> <<>>,
            metadata |-> [totalFiles |-> 0, totalNodes |-> 0,
                          languages |-> <<>>, entryPoints |-> <<>>]]

\* The values of a sequence, as a set.
Range(s) == {s[i] : i \in 1..Len(s)}

\* nodes.forEach(node => { if (!seen.has(node.id)) seen.set(node.id, node) })
\* seen is the Map, kept as its values in insertion order.
RECURSIVE nodesForEach(_, _, _)
nodesForEach(nodes, i, seen) ==
    IF i > Len(nodes) THEN seen
    ELSE nodesForEach(nodes, i + 1,
             IF \E k \in 1..Len(seen) : seen[k].id = nodes[i].id
             THEN seen
             ELSE Append(seen, nodes[i]))

\* A Map whose set() is not guarded by has(): the key keeps the position of its
\* first insertion and takes the value of its last.
RECURSIVE nodesForEachLastWins(_, _, _)
nodesForEachLastWins(nodes, i, seen) ==
    IF i > Len(nodes) THEN seen
    ELSE nodesForEachLastWins(nodes, i + 1,
             IF \E k \in 1..Len(seen) : seen[k].id = nodes[i].id
             THEN [k \in 1..Len(seen) |->
                      IF seen[k].id = nodes[i].id THEN nodes[i] ELSE seen[k]]
             ELSE Append(seen, nodes[i]))

deduplicateNodesLastWins(nodes) == nodesForEachLastWins(nodes, 1, <<>>)

deduplicateNodes(nodes) == nodesForEach(nodes, 1, <<>>)

\* const key = `${edge.from}-${edge.to}-${edge.type}`
edgeKey(edge) == edge.from \o "-" \o edge.to \o "-" \o edge.type

\* edges.filter(edge => { if (seen.has(key)) return false; seen.add(key); return true })
RECURSIVE edgesFilter(_, _, _)
edgesFilter(edges, i, seen) ==
    IF i > Len(edges) THEN <<>>
    ELSE IF edgeKey(edges[i]) \in seen
         THEN edgesFilter(edges, i + 1, seen)
         ELSE <<edges[i]>> \o edgesFilter(edges, i + 1, seen \cup {edgeKey(edges[i])})

deduplicateEdges(edges) == edgesFilter(edges, 1, {})

\* [...new Set(xs)]: the distinct values in order of first occurrence.
RECURSIVE uniqueInOrder(_, _, _)
uniqueInOrder(xs, i, acc) ==
    IF i > Len(xs) THEN acc
    ELSE uniqueInOrder(xs, i + 1,
             IF xs[i] \in Range(acc) THEN acc ELSE Append(acc, xs[i]))

\* rootPath and analyzedAt are carried through unread and are left out.
buildFromEntryPoints(nodes, edges, entryPointFiles) ==
    LET uniqueNodes == deduplicateNodes(nodes)
        uniqueEdges == deduplicateEdges(edges)
    IN  [nodes |-> uniqueNodes,
         edges |-> uniqueEdges,
         metadata |->
            [totalFiles  |-> Cardinality({uniqueNodes[i].filePath : i \in 1..Len(uniqueNodes)}),
             totalNodes  |-> Len(uniqueNodes),
             languages   |-> uniqueInOrder([i \in 1..Len(uniqueNodes) |-> uniqueNodes[i].language], 1, <<>>),
             entryPoints |-> entryPointFiles]]

\* build: the same without the entry-point list.
build(nodes, edges) ==
    [buildFromEntryPoints(nodes, edges, <<>>) EXCEPT !.metadata.entryPoints = "undefined"]

(***************************************************************************)
(* Graph assembly: the analyzer pushes parsed nodes and edges, then builds. *)
(***************************************************************************)
BuildNodeIds   == {"k1", "k2"}
BuildFilePaths == {"/w/a.ts", "/w/B.java"}
BuildLanguage(filePath) == IF endsWith(filePath, ".java") THEN "java" ELSE "typescript"

BuildNodes ==
    {[id |-> k, filePath |-> f, language |-> BuildLanguage(f)] :
        k \in BuildNodeIds, f \in BuildFilePaths}

\* Edge ends: plain names and names holding the '-' character.
BuildEdges ==
    {[from |-> "a",   to |-> "b-c", type |-> "imports"],
     [from |-> "a-b", to |-> "c",   type |-> "imports"],
     [from |-> "a",   to |-> "c",   type |-> "imports"],
     [from |-> "a",   to |-> "c",   type |-> "contains"],
     [from |-> "c",   to |-> "a",   type |-> "imports"]}

BuildEntryFiles == <<"/w/a.ts">>

NoQuery == [op |-> "none", id |-> "", maxDepth |-> 0]

NoImports == [file |-> "", imports |-> <<>>]

NoDocument == [fsPath |-> ""]
NoResult == [status |-> "pending"]

ParserIdle ==
    /\ document = NoDocument
    /\ result = NoResult

AnalyzeIdle ==
    /\ ParserIdle
    /\ filesToParse = <<>>
    /\ parseOutcomes = <<>>
    /\ errors = <<>>

ImportIdle ==
    /\ AnalyzeIdle
    /\ disk = {}
    /\ importing = NoImports
    /\ dependencies = <<>>
    /\ settled = "pending"

EntryIdle ==
    /\ ImportIdle
    /\ workspace = {}
    /\ listing = <<>>
    /\ uniqueEntryPoints = <<>>
    /\ entryPoints = <<>>

TravIdle ==
    /\ EntryIdle
    /\ frames = <<>>
    /\ visited = {}
    /\ nodesToInclude = {}
    /\ edgesToInclude = <<>>
    /\ expansions = <<>>

\* Everything outside graph assembly, the parsers and analyze is idle.
QuietElsewhere ==
    /\ query = NoQuery /\ answer = <<>>
    /\ disk = {} /\ importing = NoImports /\ dependencies = <<>> /\ settled = "pending"
    /\ workspace = {} /\ listing = <<>> /\ uniqueEntryPoints = <<>>
    /\ frames = <<>> /\ visited = {} /\ nodesToInclude = {}
    /\ edgesToInclude = <<>> /\ expansions = <<>>

InitBuild ==
    /\ phase = "collect"
    /\ allNodes = <<>>
    /\ allEdges = <<>>
    /\ graph = NoGraph
    /\ query = NoQuery
    /\ answer = <<>>
    /\ TravIdle

\* allNodes.push(...result.nodes)
PushNode ==
    /\ phase = "collect"
    /\ Len(allNodes) < MaxNodes
    /\ \E n \in BuildNodes : allNodes' = Append(allNodes, n)
    /\ UNCHANGED <<phase, allEdges, graph, query, answer, notGraph>>

\* allEdges.push(...)
PushEdge ==
    /\ phase = "collect"
    /\ Len(allEdges) < MaxEdges
    /\ \E e \in BuildEdges : allEdges' = Append(allEdges, e)
    /\ UNCHANGED <<phase, allNodes, graph, query, answer, notGraph>>

Build ==
    /\ phase = "collect"
    /\ graph' = buildFromEntryPoints(allNodes, allEdges, BuildEntryFiles)
    /\ phase' = "built"
    /\ UNCHANGED <<allNodes, allEdges, query, answer, notGraph>>

BuildPlain ==
    /\ phase = "collect"
    /\ graph' = build(allNodes, allEdges)
    /\ phase' = "built"
    /\ UNCHANGED <<allNodes, allEdges, query, answer, notGraph>>

NextBuild == PushNode \/ PushEdge \/ Build \/ BuildPlain

SpecBuild == InitBuild /\ [][NextBuild]_vars

\* C4: the built graph holds exactly one node per identity key of the input,
\* and the node kept for a key is the first node of the input with that key.
C4_FirstNodePerKeyKept ==
    phase = "built" =>
        /\ {graph.nodes[j].id : j \in 1..Len(graph.nodes)}
              = {allNodes[i].id : i \in 1..Len(allNodes)}
        /\ \A j, k \in 1..Len(graph.nodes) :
              j # k => graph.nodes[j].id # graph.nodes[k].id
        /\ \A j \in 1..Len(graph.nodes) :
              \E i \in 1..Len(allNodes) :
                 /\ allNodes[i] = graph.nodes[j]
                 /\ \A h \in 1..(i - 1) : allNodes[h].id # graph.nodes[j].id

\* Two nodes with one key and different contents went in, one came out.
C4_Witness ==
    /\ phase = "built"
    /\ Len(graph.nodes) < Len(allNodes)
    /\ \E i, j \in 1..Len(allNodes) :
          i < j /\ allNodes[i].id = allNodes[j].id /\ allNodes[i] # allNodes[j]

\* C5 (as claimed): edges are merged if and only if from, to and type are all
\* equal: every input triple is in the output, and no triple is there twice.
C5_EdgesMergedIffSameTriple ==
    phase = "built" =>
        /\ \A i \in 1..Len(allEdges) :
              \E j \in 1..Len(graph.edges) : graph.edges[j] = allEdges[i]
        /\ \A j, k \in 1..Len(graph.edges) :
              j # k => graph.edges[j] # graph.edges[k]

(***************************************************************************)
(* GraphBuilder.filterByDepth                                              *)
(***************************************************************************)
\* if (depth > maxDepth || visited.has(nodeId)) return;  without the cycle guard
traverseReturnsNoCycleGuard(depth, maxDepth, seen, nodeId) == depth > maxDepth

\* if (depth > maxDepth || visited.has(nodeId)) return;
traverseReturns(depth, maxDepth, seen, nodeId) ==
    depth > maxDepth \/ nodeId \in seen

\* graph.edges.filter(e => e.from === nodeId)
outgoingEdges(g, nodeId) == SelectSeq(g.edges, LAMBDA e : e.from = nodeId)

\* traverse(nodeId, depth) on the closure state st = (visited, nodesToInclude,
\* edgesToInclude); forEachOutgoing is outgoingEdges.forEach from index i.
RECURSIVE traverse(_, _, _, _, _)
RECURSIVE forEachOutgoing(_, _, _, _, _, _)
traverse(g, maxDepth, st, nodeId, depth) ==
    IF traverseReturns(depth, maxDepth, st.visited, nodeId) THEN st
    ELSE forEachOutgoing(g, maxDepth,
             [st EXCEPT !.visited = @ \cup {nodeId},
                        !.nodesToInclude = @ \cup {nodeId}],
             outgoingEdges(g, nodeId), 1, depth)

forEachOutgoing(g, maxDepth, st, out, i, depth) ==
    IF i > Len(out) THEN st
    ELSE forEachOutgoing(g, maxDepth,
             traverse(g, maxDepth,
                      [st EXCEPT !.edgesToInclude = Append(@, out[i])],
                      out[i].to, depth + 1),
             out, i + 1, depth)

\* The graph filterByDepth returns from the closure state after traverse(root, 0).
filterResult(g, included, edges) ==
    [nodes    |-> SelectSeq(g.nodes, LAMBDA n : n.id \in included),
     edges    |-> edges,
     metadata |-> [g.metadata EXCEPT !.totalNodes = Cardinality(included)]]

filterByDepth(g, rootNodeId, maxDepth) ==
    LET st == traverse(g, maxDepth,
                       [visited |-> {}, nodesToInclude |-> {}, edgesToInclude |-> <<>>],
                       rootNodeId, 0)
    IN  filterResult(g, st.nodesToInclude, st.edgesToInclude)

(***************************************************************************)
(* Depth-limited extraction on a built graph whose edges join node ids.    *)
(***************************************************************************)
FilterNode(k) == [id |-> k, filePath |-> "/w/" \o k \o ".ts", language |-> "typescript"]

FilterNodes == <<FilterNode("r"), FilterNode("a"), FilterNode("b"),
                 FilterNode("x"), FilterNode("y")>>

FilterEdge(f, t) == [from |-> f, to |-> t, type |-> "calls"]

\* A long path r-a-b-x and a short one r-x to x, a cycle through y, a self-loop,
\* and a target that is a file path and no node id.
FilterEdges ==
    {FilterEdge("r", "a"), FilterEdge("a", "b"), FilterEdge("b", "x"),
     FilterEdge("r", "x"), FilterEdge("x", "y"), FilterEdge("y", "r"),
     FilterEdge("a", "a"), FilterEdge("x", "/w/z.ts")}

FilterRoots == Range(FilterNodes) \cup {[id |-> "/w/z.ts"]}

InitFilter ==
    /\ phase = "collect"
    /\ allNodes = FilterNodes
    /\ allEdges = <<>>
    /\ graph = NoGraph
    /\ query = NoQuery
    /\ answer = <<>>
    /\ TravIdle

\* One relation found by a parser; each relation is pushed once here.
PushFilterEdge ==
    /\ phase = "collect"
    /\ Len(allEdges) < MaxFilterEdges
    /\ \E e \in FilterEdges \ Range(allEdges) : allEdges' = Append(allEdges, e)
    /\ UNCHANGED <<phase, allNodes, graph, query, answer, notGraph>>

\* The answer depends on the graph and the arguments alone, so one call per
\* built graph covers every call.
FilterByDepth ==
    /\ phase = "built"
    /\ \E root \in FilterRoots, maxDepth \in 0..MaxDepth :
          /\ query' = [op |-> "filterByDepth", id |-> root.id, maxDepth |-> maxDepth]
          /\ answer' = filterByDepth(graph, root.id, maxDepth)
    /\ phase' = "queried"
    /\ UNCHANGED <<allNodes, allEdges, graph, notGraph>>

NextFilter == PushFilterEdge \/ Build \/ FilterByDepth

SpecFilter == InitFilter /\ [][NextFilter]_vars

IsFilterAnswer == phase = "queried" /\ query.op = "filterByDepth"

NodeIdsOf(g) == {g.nodes[i].id : i \in 1..Len(g.nodes)}

\* C1 (as claimed): for a root that is a node of the graph, depth 0 returns the
\* root alone and no edge.
C1_DepthZeroIsRootOnly ==
    (IsFilterAnswer /\ query.maxDepth = 0 /\ query.id \in NodeIdsOf(graph)) =>
        /\ Len(answer.nodes) = 1
        /\ answer.nodes[1].id = query.id
        /\ answer.edges = <<>>

\* C2 (as claimed): the answer for maxDepth + 1 has at least as many nodes and
\* at least as many edges as the answer for maxDepth.
C2_MonotonicInMaxDepth ==
    IsFilterAnswer =>
        LET deeper == filterByDepth(graph, query.id, query.maxDepth + 1)
        IN  /\ Len(deeper.nodes) >= Len(answer.nodes)
            /\ Len(deeper.edges) >= Len(answer.edges)

(***************************************************************************)
(* GraphBuilder.getDependencies: the repository holds two versions.        *)
(***************************************************************************)
\* graph.nodes.find(n => n.id === nodeId): the index of the first match, 0 if none.
findNodeIndex(g, nodeId) ==
    IF \E i \in 1..Len(g.nodes) : g.nodes[i].id = nodeId
    THEN CHOOSE i \in 1..Len(g.nodes) :
            /\ g.nodes[i].id = nodeId
            /\ \A h \in 1..(i - 1) : g.nodes[h].id # nodeId
    ELSE 0

\* The version that looks edges up by the file path of the node.
getDependencies(g, nodeId) ==
    LET at == findNodeIndex(g, nodeId)
    IN  IF at = 0 THEN <<>>
        ELSE LET node == g.nodes[at]
                 targetFilePaths ==
                     {e.to : e \in {d \in Range(g.edges) : d.from = node.filePath}}
             IN  SelectSeq(g.nodes, LAMBDA n : n.filePath \in targetFilePaths)

\* The version that looks edges up by the node id itself.
getDependenciesById(g, nodeId) ==
    LET depIds == {e.to : e \in {d \in Range(g.edges) : d.from = nodeId}}
    IN  SelectSeq(g.nodes, LAMBDA n : n.id \in depIds)

(***************************************************************************)
(* Dependency queries on a built graph: several entities per file, import  *)
(* edges from file path to file path.                                      *)
(***************************************************************************)
DepsNode(k, f) == [id |-> k, filePath |-> f, language |-> "typescript"]

DepsNodes == <<DepsNode("/w/a.ts:class:A:1", "/w/a.ts"),
               DepsNode("/w/a.ts:function:f:9", "/w/a.ts"),
               DepsNode("/w/b.ts:class:B:1", "/w/b.ts"),
               DepsNode("/w/b.ts:function:g:7", "/w/b.ts"),
               DepsNode("/w/c.ts:class:C:1", "/w/c.ts")>>

DepsEdge(f, t, k) == [from |-> f, to |-> t, type |-> k]

DepsEdges ==
    {DepsEdge("/w/a.ts", "/w/b.ts", "imports"),
     DepsEdge("/w/a.ts", "/w/c.ts", "imports"),
     DepsEdge("/w/b.ts", "/w/a.ts", "imports"),
     DepsEdge("/w/c.ts", "/w/c.ts", "contains"),
     DepsEdge("/w/c.ts", "/w/gone.ts", "imports"),
     DepsEdge("/w/b.ts", "Base", "extends")}

DepsQueryIds == {DepsNodes[i].id : i \in 1..Len(DepsNodes)} \cup {"/w/a.ts:class:Missing:3"}

InitDeps ==
    /\ phase = "collect"
    /\ allNodes = DepsNodes
    /\ allEdges = <<>>
    /\ graph = NoGraph
    /\ query = NoQuery
    /\ answer = <<>>
    /\ TravIdle

PushDepsEdge ==
    /\ phase = "collect"
    /\ Len(allEdges) < MaxDepEdges
    /\ \E e \in DepsEdges \ Range(allEdges) : allEdges' = Append(allEdges, e)
    /\ UNCHANGED <<phase, allNodes, graph, query, answer, notGraph>>

GetDependencies ==
    /\ phase = "built"
    /\ \E nodeId \in DepsQueryIds :
          /\ query' = [op |-> "getDependencies", id |-> nodeId, maxDepth |-> 0]
          /\ answer' = getDependencies(graph, nodeId)
    /\ phase' = "queried"
    /\ UNCHANGED <<allNodes, allEdges, graph, notGraph>>

GetDependenciesById ==
    /\ phase = "built"
    /\ \E nodeId \in DepsQueryIds :
          /\ query' = [op |-> "getDependenciesById", id |-> nodeId, maxDepth |-> 0]
          /\ answer' = getDependenciesById(graph, nodeId)
    /\ phase' = "queried"
    /\ UNCHANGED <<allNodes, allEdges, graph, notGraph>>

NextDeps == PushDepsEdge \/ Build \/ GetDependencies \/ GetDependenciesById

SpecDeps == InitDeps /\ [][NextDeps]_vars

\* The nodes of every file that the file of node nodeId has an edge to.
DependencyNodes(g, nodeId) ==
    {m \in Range(g.nodes) :
        \E n \in Range(g.nodes), e \in Range(g.edges) :
            n.id = nodeId /\ e.from = n.filePath /\ e.to = m.filePath}

AnswersClaimedDependencies ==
    /\ Range(answer) = DependencyNodes(graph, query.id)
    /\ \A i, j \in 1..Len(answer) : i # j => answer[i] # answer[j]

\* C6 (as claimed): getDependencies returns exactly the nodes of the files
\* that the file of node nodeId has an edge to, and nothing for an unknown id.
C6_DependenciesByFilePath ==
    (phase = "queried" /\ query.op \in {"getDependencies", "getDependenciesById"}) =>
        AnswersClaimedDependencies

\* The version that goes through the file path does what C6 claims.
DependenciesByFilePathHold ==
    (phase = "queried" /\ query.op = "getDependencies") => AnswersClaimedDependencies

(***************************************************************************)
(* filterByDepth step by step: one action per entry of traverse and per    *)
(* turn of its forEach, on an explicit call stack.                         *)
(***************************************************************************)
TravNodes == <<FilterNode("r"), FilterNode("a"), FilterNode("b")>>

\* Cycles r-a-r and r-a-b-r, and self-loops on r and on a.
TravEdges ==
    {FilterEdge("r", "a"), FilterEdge("a", "b"), FilterEdge("b", "r"),
     FilterEdge("a", "r"), FilterEdge("a", "a"), FilterEdge("r", "r")}

TravIds == {TravNodes[i].id : i \in 1..Len(TravNodes)}

Frame(nodeId, depth) ==
    [nodeId |-> nodeId, depth |-> depth, pc |-> "enter", out |-> <<>>, i |-> 1]

Top == frames[Len(frames)]

Pop == SubSeq(frames, 1, Len(frames) - 1)

InitTraverse ==
    /\ phase = "collect"
    /\ allNodes = TravNodes
    /\ allEdges = <<>>
    /\ graph = NoGraph
    /\ query = NoQuery
    /\ answer = <<>>
    /\ frames = <<>>
    /\ visited = {}
    /\ nodesToInclude = {}
    /\ edgesToInclude = <<>>
    /\ expansions = [k \in TravIds |-> 0]
    /\ EntryIdle

PushTravEdge ==
    /\ phase = "collect"
    /\ Len(allEdges) < MaxTravEdges
    /\ \E e \in TravEdges \ Range(allEdges) : allEdges' = Append(allEdges, e)
    /\ UNCHANGED <<phase, allNodes, graph, query, answer, travVars, notTrav>>

BuildForTraverse ==
    /\ phase = "collect"
    /\ graph' = buildFromEntryPoints(allNodes, allEdges, BuildEntryFiles)
    /\ phase' = "built"
    /\ UNCHANGED <<allNodes, allEdges, query, answer, travVars, notTrav>>

\* filterByDepth(graph, rootNodeId, maxDepth) up to the call traverse(rootNodeId, 0)
CallFilterByDepth ==
    /\ phase = "built"
    /\ \E root \in TravIds, maxDepth \in 0..MaxDepth :
          /\ query' = [op |-> "filterByDepth", id |-> root, maxDepth |-> maxDepth]
          /\ frames' = <<Frame(root, 0)>>
    /\ phase' = "traversing"
    /\ UNCHANGED <<allNodes, allEdges, graph, answer,
                   visited, nodesToInclude, edgesToInclude, expansions, notTrav>>

\* traverse: the guard, then visited.add, nodesToInclude.add and the filter
TraverseEnter ==
    /\ phase = "traversing"
    /\ frames # <<>>
    /\ Top.pc = "enter"
    /\ IF traverseReturns(Top.depth, query.maxDepth, visited, Top.nodeId)
       THEN /\ frames' = Pop
            /\ UNCHANGED <<visited, nodesToInclude, expansions>>
       ELSE /\ visited' = visited \cup {Top.nodeId}
            /\ nodesToInclude' = nodesToInclude \cup {Top.nodeId}
            /\ expansions' = [expansions EXCEPT ![Top.nodeId] = @ + 1]
            /\ frames' = [frames EXCEPT ![Len(frames)] =
                              [@ EXCEPT !.pc = "forEach",
                                        !.out = outgoingEdges(graph, Top.nodeId)]]
    /\ UNCHANGED <<phase, allNodes, allEdges, graph, query, answer, edgesToInclude, notTrav>>

\* outgoingEdges.forEach: edgesToInclude.push(edge); traverse(edge.to, depth + 1)
TraverseForEach ==
    /\ phase = "traversing"
    /\ frames # <<>>
    /\ Top.pc = "forEach"
    /\ IF Top.i > Len(Top.out)
       THEN /\ frames' = Pop
            /\ UNCHANGED edgesToInclude
       ELSE /\ edgesToInclude' = Append(edgesToInclude, Top.out[Top.i])
            /\ frames' = Append([frames EXCEPT ![Len(frames)].i = @ + 1],
                                Frame(Top.out[Top.i].to, Top.depth + 1))
    /\ UNCHANGED <<phase, allNodes, allEdges, graph, query, answer,
                   visited, nodesToInclude, expansions, notTrav>>

\* return { nodes: ..., edges: edgesToInclude, metadata: ... }
ReturnFiltered ==
    /\ phase = "traversing"
    /\ frames = <<>>
    /\ answer' = filterResult(graph, nodesToInclude, edgesToInclude)
    /\ phase' = "queried"
    /\ UNCHANGED <<allNodes, allEdges, graph, query, travVars, notTrav>>

NextTraverse ==
    \/ PushTravEdge
    \/ BuildForTraverse
    \/ CallFilterByDepth
    \/ TraverseEnter
    \/ TraverseForEach
    \/ ReturnFiltered

SpecTraverse == InitTraverse /\ [][NextTraverse]_vars

\* The call runs synchronously to its return: no step of it is postponed for ever.
SpecTraverseFair ==
    /\ SpecTraverse
    /\ WF_vars(TraverseEnter)
    /\ WF_vars(TraverseForEach)
    /\ WF_vars(ReturnFiltered)

\* The stepwise run returns what the recursive definition returns.
StepsAgreeWithFilterByDepth ==
    phase = "queried" => answer = filterByDepth(graph, query.id, query.maxDepth)

ExpandedAtMostOnce ==
    /\ \A k \in DOMAIN expansions : expansions[k] <= 1
    /\ Len(edgesToInclude) <= Len(graph.edges)

\* C3: on every graph, cycles and self-loops included, every node id is
\* expanded at most once (so every edge is followed at most once), and every
\* call of filterByDepth returns.
C3_FilterByDepthTerminates ==
    /\ []ExpandedAtMostOnce
    /\ (phase = "traversing") ~> (phase = "queried")

\* A finished call that followed a self-loop and an edge back to its root.
C3_Witness ==
    /\ phase = "queried"
    /\ \E i \in 1..Len(edgesToInclude) : edgesToInclude[i].from = edgesToInclude[i].to
    /\ \E i \in 1..Len(edgesToInclude) :
          /\ edgesToInclude[i].to = query.id
          /\ edgesToInclude[i].from # query.id

(***************************************************************************)
(* EntryPointDetector                                                      *)
(* The files a workspace may hold are fixed below, so what the detector    *)
(* computes from a path or a file text alone (glob and regex matches,      *)
(* scores, types) is tabulated once per file.                              *)
(***************************************************************************)
File(path, content) == [path |-> path, content |-> content]

JavaMainText == "public static void main(String[] args) { run(); }"
PythonMainText == "if __name__ == '__main__': main()"

\* The files of a workspace folder /w, in the order of an alphabetical walk.
EntryFiles ==
    <<File("/w/app.py", ""),
      File("/w/index.js", ""),
      File("/w/lib/index.ts", ""),
      File("/w/main.py", PythonMainText),
      File("/w/node_modules/x/index.js", ""),
      File("/w/pages/index.tsx", ""),
      File("/w/pkg/src/index.ts", ""),
      File("/w/scripts/job.py", PythonMainText),
      File("/w/server/Launcher.java", JavaMainText),
      File("/w/server/ShopApplication.java", JavaMainText),
      File("/w/src/App.tsx", ""),
      File("/w/src/index.tsx", ""),
      File("/w/src/main.tsx", ""),
      File("/w/src/main/java/com/Main.java", JavaMainText)>>

EntryPaths == {EntryFiles[i].path : i \in 1..Len(EntryFiles)}

TsJsExts == {"tsx", "ts", "jsx", "js"}

\* One glob of commonEntryNames: **/<dir>/<*><name>.<ext>, where star says
\* that the file name may have any prefix, dir (if any) is the directory the
\* file lies in and under (if any) a directory chain somewhere above it.
Glob(star, names, exts, dir, under) ==
    [star |-> star, names |-> names, exts |-> exts, dir |-> dir, under |-> under]

commonEntryNames ==
    <<Glob(TRUE,  {"Main", "main"}, {"java", "ts", "tsx", "js", "jsx", "py"}, "", ""),
      Glob(TRUE,  {"App", "app"}, {"tsx", "ts", "jsx", "js", "py"}, "", ""),
      Glob(TRUE,  {"Index", "index"}, TsJsExts, "", ""),
      Glob(TRUE,  {"Application", "application"}, {"java"}, "", ""),
      Glob(FALSE, {"index"}, TsJsExts, "src", ""),
      Glob(FALSE, {"App"}, TsJsExts, "src", ""),
      Glob(TRUE,  {"Application"}, {"java"}, "", "src/main/java"),
      Glob(FALSE, {"__main__"}, {"py"}, "", ""),
      Glob(FALSE, {"manage"}, {"py"}, "", ""),
      Glob(FALSE, {"app"}, {"py"}, "", ""),
      Glob(FALSE, {"run"}, {"py"}, "", ""),
      Glob(FALSE, {"wsgi"}, {"py"}, "", ""),
      Glob(FALSE, {"asgi"}, {"py"}, "", "")>>

\* vscode.workspace.findFiles(pattern, exclude): whether a path is listed.
globMatches(glob, excludes, p) ==
    /\ \A x \in excludes : ~includes(p, "/" \o x \o "/")
    /\ \E n \in glob.names, e \in glob.exts :
          IF glob.star THEN endsWith(basename(p), n \o "." \o e)
                       ELSE basename(p) = n \o "." \o e
    /\ glob.dir # "" => endsWith(dirname(p), "/" \o glob.dir)
    /\ glob.under # "" => includes(dirname(p) \o "/", "/" \o glob.under \o "/")

EntryNameTable ==
    [k \in 1..Len(commonEntryNames) |->
        {p \in EntryPaths : globMatches(commonEntryNames[k], {"node_modules"}, p)}]

calculateEntryPointScore(fsPath) ==
    LET fileName == toLowerCase(basename(fsPath))
        filePath == toLowerCase(fsPath)
        add(cond, n) == IF cond THEN n ELSE 0
    IN  add(fileName = "index.tsx" \/ fileName = "index.ts", 10)
      + add(fileName = "app.tsx" \/ fileName = "app.ts", 9)
      + add(fileName = "main.tsx" \/ fileName = "main.ts", 8)
      + add(includes(fileName, "main.java"), 10)
      + add(includes(fileName, "application.java"), 9)
      + add(fileName = "__main__.py", 10)
      + add(fileName = "main.py", 9)
      + add(fileName = "app.py", 8)
      + add(fileName = "manage.py", 9)
      + add(fileName = "wsgi.py" \/ fileName = "asgi.py", 7)
      + add(fileName = "run.py", 7)
      + add(includes(filePath, "src/index"), 5)
      + add(includes(filePath, "src/app"), 4)
      + add(includes(filePath, "src/main"), 4)
      + add(includes(filePath, "public/"), 3)
      + add(includes(filePath, "/pages/"), 2)
      + add(splitLength(fsPath, "/") <= 5, 2)

ScoreTable == [p \in EntryPaths |-> calculateEntryPointScore(p)]

detectEntryPointType(fsPath) ==
    LET fileName == toLowerCase(basename(fsPath))
    IN  IF includes(fileName, "main") THEN "main"
        ELSE IF includes(fileName, "index") THEN "index"
        ELSE IF includes(fileName, "app") THEN "app"
        ELSE "config"

TypeTable == [p \in EntryPaths |-> detectEntryPointType(p)]

EntryPoint(filePath, type, score) ==
    [filePath |-> filePath, type |-> type, score |-> score, isPrimaryEntry |-> FALSE]

\* The pushes of the loop over commonEntryNames, from pattern k on.
RECURSIVE namedEntryPoints(_, _)
namedEntryPoints(lst, k) ==
    IF k > Len(commonEntryNames) THEN <<>>
    ELSE LET files == SelectSeq(lst, LAMBDA f : f.path \in EntryNameTable[k])
             scored == SelectSeq(files, LAMBDA f : ScoreTable[f.path] > 0)
         IN  [i \in 1..Len(scored) |->
                 EntryPoint(scored[i].path, TypeTable[scored[i].path],
                            ScoreTable[scored[i].path])]
             \o namedEntryPoints(lst, k + 1)

\* mainMethodPattern.test(content), for the usual spelling of the signature
hasMainMethod(f) == includes(f.content, "public static void main(String[] args)")

\* mainBlockPattern.test(content), for the usual spelling of the block
hasPythonMainBlock(f) == includes(f.content, "if __name__ == '__main__':")

\* The third argument of findFiles: at most so many files are listed.
MaxResults == 100

take(xs, n) == SubSeq(xs, 1, IF Len(xs) < n THEN Len(xs) ELSE n)

AnyFile(ext) == Glob(TRUE, {""}, {ext}, "", "")

JavaFileTable == {p \in EntryPaths : globMatches(AnyFile("java"), {"node_modules"}, p)}

PythonFileTable ==
    {p \in EntryPaths :
        globMatches(AnyFile("py"), {"node_modules", "__pycache__", "venv", ".venv", "env"}, p)}

MainMethodTable == {f \in Range(EntryFiles) : hasMainMethod(f)}

PythonMainBlockTable == {f \in Range(EntryFiles) : hasPythonMainBlock(f)}

findFilesWithMainMethod(lst) ==
    LET javaFiles == take(SelectSeq(lst, LAMBDA f : f.path \in JavaFileTable), MaxResults)
        pythonFiles == take(SelectSeq(lst, LAMBDA f : f.path \in PythonFileTable), MaxResults)
        javaMains == SelectSeq(javaFiles, LAMBDA f : f \in MainMethodTable)
        pythonMains == SelectSeq(pythonFiles, LAMBDA f : f \in PythonMainBlockTable)
    IN  [i \in 1..Len(javaMains) |-> EntryPoint(javaMains[i].path, "main", 10)]
        \o [i \in 1..Len(pythonMains) |-> EntryPoint(pythonMains[i].path, "main", 8)]

RECURSIVE uniqueByFilePath(_, _, _)
uniqueByFilePath(eps, i, unique) ==
    IF i > Len(eps) THEN unique
    ELSE uniqueByFilePath(eps, i + 1,
             IF \E k \in 1..Len(unique) : unique[k].filePath = eps[i].filePath
             THEN unique
             ELSE Append(unique, eps[i]))

deduplicateEntryPoints(eps) == uniqueByFilePath(eps, 1, <<>>)

\* Array.prototype.sort is stable: an element goes before the first element
\* that the comparator puts strictly after it.
insertBefore(sorted, x, at) ==
    SubSeq(sorted, 1, at - 1) \o <<x>> \o SubSeq(sorted, at, Len(sorted))

\* Array.prototype.find / findIndex: the first of the indices that match, 0 if
\* none does.
firstIndex(hits) ==
    IF hits = {} THEN 0 ELSE CHOOSE i \in hits : \A h \in hits : i <= h

\* (a, b) => b.score - a.score  is negative
scoreBefore(a, b) == a.score > b.score

\* the comparator of the second sort is negative
primaryBefore(a, b) ==
    IF a.isPrimaryEntry /\ ~b.isPrimaryEntry THEN TRUE
    ELSE IF ~a.isPrimaryEntry /\ b.isPrimaryEntry THEN FALSE
    ELSE a.score > b.score

RECURSIVE sortFrom(_, _, _, _)
sortFrom(xs, i, sorted, byPrimary) ==
    IF i > Len(xs) THEN sorted
    ELSE LET at == firstIndex({k \in 1..Len(sorted) :
                                  IF byPrimary THEN primaryBefore(xs[i], sorted[k])
                                               ELSE scoreBefore(xs[i], sorted[k])})
         IN  sortFrom(xs, i + 1,
                      insertBefore(sorted, xs[i], IF at = 0 THEN Len(sorted) + 1 ELSE at),
                      byPrimary)

sortByScore(eps) == sortFrom(eps, 1, <<>>, FALSE)

\* The second sort left out: the list stays in the order of the first sort.
sortPrimaryFirstOmitted(eps) == eps

sortPrimaryFirst(eps) == sortFrom(eps, 1, <<>>, TRUE)

reactPrimaryPatterns == <<"/src/index.", "/src/main.", "/index.", "/main.">>

\* reactPrimaryPatterns[k].test(filePath): case-insensitive, anchored at the end
reactPatternTest(k, filePath) ==
    \E e \in TsJsExts : endsWith(toLowerCase(filePath), reactPrimaryPatterns[k] \o e)

ReactPatternTable ==
    [k \in 1..Len(reactPrimaryPatterns) |-> {p \in EntryPaths : reactPatternTest(k, p)}]

pythonPrimaryPatterns ==
    <<"__main__.py", "/main.py", "/app.py", "/manage.py", "/run.py", "/wsgi.py", "/asgi.py">>

pythonPatternTest(k, filePath) == endsWith(toLowerCase(filePath), pythonPrimaryPatterns[k])

PythonPatternTable ==
    [k \in 1..Len(pythonPrimaryPatterns) |-> {p \in EntryPaths : pythonPatternTest(k, p)}]

isJavaMain(ep) == ep.type = "main" /\ endsWith(ep.filePath, ".java")

markAt(eps, i, boost) ==
    [eps EXCEPT ![i] = [@ EXCEPT !.isPrimaryEntry = TRUE, !.score = @ + boost]]

\* The pattern a for-loop over patterns stops at: the first one some entry
\* matches, 0 if none does.
firstPattern(table, eps) ==
    LET hit(k) == \E i \in 1..Len(eps) : eps[i].filePath \in table[k]
    IN  IF \E k \in DOMAIN table : hit(k)
        THEN CHOOSE k \in DOMAIN table : hit(k) /\ \A h \in 1..(k - 1) : ~hit(h)
        ELSE 0

\* The chain with the Java rule tried before the React/TS one.
primaryRuleJavaFirst(eps) ==
    IF \E i \in 1..Len(eps) : isJavaMain(eps[i]) THEN 2
    ELSE IF firstPattern(ReactPatternTable, eps) # 0 THEN 1
    ELSE IF firstPattern(PythonPatternTable, eps) # 0 THEN 3
    ELSE IF Len(eps) > 0 THEN 4
    ELSE 0

\* Which rule of markPrimaryEntryPoint decides: 1 React/TS, 2 Java main,
\* 3 Python, 4 the fallback, 0 when there is no entry point.
primaryRule(eps) ==
    IF firstPattern(ReactPatternTable, eps) # 0 THEN 1
    ELSE IF \E i \in 1..Len(eps) : isJavaMain(eps[i]) THEN 2
    ELSE IF firstPattern(PythonPatternTable, eps) # 0 THEN 3
    ELSE IF Len(eps) > 0 THEN 4
    ELSE 0

markPrimaryEntryPoint(eps) ==
    LET rule == primaryRule(eps)
        react == firstPattern(ReactPatternTable, eps)
        python == firstPattern(PythonPatternTable, eps)
    IN  CASE rule = 1 ->
               markAt(eps, firstIndex({i \in 1..Len(eps) : eps[i].filePath \in ReactPatternTable[react]}), 100)
          [] rule = 2 -> markAt(eps, firstIndex({i \in 1..Len(eps) : isJavaMain(eps[i])}), 100)
          [] rule = 3 ->
               markAt(eps, firstIndex({i \in 1..Len(eps) : eps[i].filePath \in PythonPatternTable[python]}), 100)
          [] rule = 4 -> markAt(eps, 1, 0)
          [] OTHER -> eps

\* detectEntryPoints up to the first sort
rankedEntryPoints(lst) ==
    sortByScore(deduplicateEntryPoints(namedEntryPoints(lst, 1) \o findFilesWithMainMethod(lst)))

\* slice(0, 10)
TopEntryPoints == 10

\* detectEntryPoints from markPrimaryEntryPoint on
detectEntryPoints(ranked) == take(sortPrimaryFirst(markPrimaryEntryPoint(ranked)), TopEntryPoints)

(***************************************************************************)
(* Entry-point detection on a workspace folder.                            *)
(***************************************************************************)
reverse(xs) == [i \in 1..Len(xs) |-> xs[Len(xs) + 1 - i]]

\* findFiles promises no order: the walk is taken forwards or backwards.
Listings(files) ==
    LET present == SelectSeq(EntryFiles, LAMBDA f : f \in files)
    IN  {present, reverse(present)}

InitEntry ==
    /\ phase = "opened"
    /\ workspace \in SUBSET Range(EntryFiles)
    /\ listing \in Listings(workspace)
    /\ uniqueEntryPoints = <<>>
    /\ entryPoints = <<>>
    /\ ImportIdle
    /\ allNodes = <<>>
    /\ allEdges = <<>>
    /\ graph = NoGraph
    /\ query = NoQuery
    /\ answer = <<>>
    /\ frames = <<>>
    /\ visited = {}
    /\ nodesToInclude = {}
    /\ edgesToInclude = <<>>
    /\ expansions = <<>>

DetectEntryPoints ==
    /\ phase = "opened"
    /\ uniqueEntryPoints' = rankedEntryPoints(listing)
    /\ entryPoints' = detectEntryPoints(rankedEntryPoints(listing))
    /\ phase' = "detected"
    /\ UNCHANGED <<workspace, listing, notEntry>>

NextEntry == DetectEntryPoints

SpecEntry == InitEntry /\ [][NextEntry]_vars

\* The entry of the ranked candidates that has the path p.
candidateOf(p) ==
    uniqueEntryPoints[firstIndex({i \in 1..Len(uniqueEntryPoints) :
                                     uniqueEntryPoints[i].filePath = p})]

candidates == Range(uniqueEntryPoints)

matchesReactPattern(ep) ==
    \E k \in 1..Len(reactPrimaryPatterns) : ep.filePath \in ReactPatternTable[k]

matchesPythonPattern(ep) ==
    \E k \in 1..Len(pythonPrimaryPatterns) : ep.filePath \in PythonPatternTable[k]

\* The Java files of the workspace that declare a main method.
javaMainFiles == {f.path : f \in {g \in workspace : g \in MainMethodTable /\ g.path \in JavaFileTable}}

listed(p) == \E i \in 1..Len(entryPoints) : entryPoints[i].filePath = p

\* C7: the list detectEntryPoints returns has at most 10 entries, exactly one
\* of them primary when there is any, the primary one first, and the others
\* in non-increasing order of score.
C7_RankedTopTen ==
    phase = "detected" =>
        /\ Len(entryPoints) <= 10
        /\ Cardinality({i \in 1..Len(entryPoints) : entryPoints[i].isPrimaryEntry}) <= 1
        /\ entryPoints # <<>> => entryPoints[1].isPrimaryEntry
        /\ \A i \in 2..(Len(entryPoints) - 1) : entryPoints[i].score >= entryPoints[i + 1].score

\* More than ten candidates were found, and the primary one is not the one
\* with the highest score.
C7_Witness ==
    /\ phase = "detected"
    /\ Len(uniqueEntryPoints) > 10
    /\ Len(entryPoints) = 10
    /\ entryPoints[1].isPrimaryEntry
    /\ entryPoints[1].filePath # uniqueEntryPoints[1].filePath

\* The rule chain of C8: the primary entry is a match of the first rule that
\* has a match among the candidates, with 100 added to its score by rules 1-3
\* and its score kept by the fallback.
primaryByRuleChain ==
    LET primary == entryPoints[1]
        before == candidateOf(primary.filePath)
    IN  /\ primary.isPrimaryEntry
        /\ IF (\E ep \in candidates : matchesReactPattern(ep))
           THEN matchesReactPattern(before) /\ primary.score = before.score + 100
           ELSE IF (\E ep \in candidates : isJavaMain(ep))
           THEN isJavaMain(before) /\ primary.score = before.score + 100
           ELSE IF (\E ep \in candidates : matchesPythonPattern(ep))
           THEN matchesPythonPattern(before) /\ primary.score = before.score + 100
           ELSE primary.filePath = uniqueEntryPoints[1].filePath /\ primary.score = before.score

inIndexTsxAndJavaMainWorkspace ==
    /\ phase = "detected"
    /\ File("/w/src/index.tsx", "") \in workspace
    /\ javaMainFiles # {}

RootOrSrcTable ==
    {p \in EntryPaths :
        /\ \E n \in {"index", "main"}, e \in TsJsExts : toLowerCase(basename(p)) = n \o "." \o e
        /\ dirname(p) = "/w" \/ toLowerCase(basename(dirname(p))) = "src"}

\* C9: when no candidate is an index.* or main.* file in the workspace root
\* or directly under src/, rule 1 does not apply: the primary entry is a Java
\* main candidate if there is one, else a Python entry candidate if there is
\* one, else the candidate with the highest score, its score unchanged.
C9_RuleOneOnlyRootOrSrc ==
    (/\ phase = "detected"
     /\ uniqueEntryPoints # <<>>
     /\ ~(\E ep \in candidates : ep.filePath \in RootOrSrcTable)) =>
        LET primary == entryPoints[1]
            before == candidateOf(primary.filePath)
        IN  IF (\E ep \in candidates : isJavaMain(ep)) THEN isJavaMain(before)
            ELSE IF (\E ep \in candidates : matchesPythonPattern(ep)) THEN matchesPythonPattern(before)
            ELSE primary.filePath = uniqueEntryPoints[1].filePath /\ primary.score = before.score

(***************************************************************************)
(* ImportAnalyzer                                                          *)
(***************************************************************************)
\* s.split("/"), from position i on, current being the piece read so far
RECURSIVE splitFrom(_, _, _)
splitFrom(s, i, current) ==
    IF i > Len(s) THEN <<current>>
    ELSE IF charAt(s, i) = "/" THEN <<current>> \o splitFrom(s, i + 1, "")
    ELSE splitFrom(s, i + 1, current \o charAt(s, i))

\* The segments of a path with "", "." and ".." resolved.
RECURSIVE normalizeFrom(_, _, _)
normalizeFrom(segments, i, out) ==
    IF i > Len(segments) THEN out
    ELSE normalizeFrom(segments, i + 1,
             IF segments[i] = "" \/ segments[i] = "." THEN out
             ELSE IF segments[i] = ".."
                  THEN (IF Len(out) = 0 THEN out ELSE SubSeq(out, 1, Len(out) - 1))
             ELSE Append(out, segments[i]))

RECURSIVE joinFrom(_, _, _)
joinFrom(xs, i, sep) ==
    IF i > Len(xs) THEN ""
    ELSE IF i = Len(xs) THEN xs[i]
    ELSE xs[i] \o sep \o joinFrom(xs, i + 1, sep)

\* Array.prototype.join
join(xs, sep) == joinFrom(xs, 1, sep)

\* path.resolve(from, to) on POSIX, from being an absolute path
pathResolve(from, to) ==
    LET whole == IF startsWith(to, "/") THEN to ELSE from \o "/" \o to
    IN  "/" \o join(normalizeFrom(splitFrom(whole, 1, ""), 1, <<>>), "/")

\* The files buildDependencyMap is called on, and the specifiers in them.
ImportingFiles == {"/w/src/app.ts", "/w/src/ui/view.tsx"}

Specifiers == {"react", "./sibling", "../sibling", "./ui", "/w/src/sibling.js", "./missing"}

ResolveTable ==
    [f \in ImportingFiles |-> [x \in Specifiers |-> pathResolve(dirname(f), x)]]

\* The paths that may exist: "/w/src/ui" is a directory, the others are files.
DiskPaths ==
    {"/w/src/sibling.ts", "/w/src/sibling.js", "/w/src/react.ts",
     "/w/src/ui", "/w/src/ui/sibling.ts", "/w/src/ui/index.ts"}

Disks ==
    {d \in SUBSET DiskPaths :
        \A p \in d : startsWith(p, "/w/src/ui/") => "/w/src/ui" \in d}

\* try { await fs.stat(uri); return true } catch { return false }
fileExists(d, filePath) == IF filePath \in d THEN "true" ELSE "false"

extensions ==
    <<".ts", ".tsx", ".js", ".jsx", ".java",
      "/index.ts", "/index.tsx", "/index.js", "/index.jsx">>

\* A settled promise; the value "" stands for null.
Fulfilled(value) == [state |-> "fulfilled", value |-> value]
Rejected == [state |-> "rejected", value |-> ""]

\* No specifier is taken for an external package.
isExternalPackageNever(importSource) == FALSE

\* !importSource.startsWith('.') && !importSource.startsWith('/')
isExternalPackage(importSource) ==
    ~startsWith(importSource, ".") /\ ~startsWith(importSource, "/")

\* The loop over extensions, from extension k on, then the path as it is.
RECURSIVE tryExtensions(_, _, _)
tryExtensions(d, resolvedPath, k) ==
    IF k > Len(extensions)
    THEN CASE fileExists(d, resolvedPath) = "true" -> Fulfilled(resolvedPath)
           [] fileExists(d, resolvedPath) = "false" -> Fulfilled("")
           [] OTHER -> Rejected
    ELSE LET testPath == resolvedPath \o extensions[k]
         IN  CASE fileExists(d, testPath) = "true" -> Fulfilled(testPath)
               [] fileExists(d, testPath) = "false" -> tryExtensions(d, resolvedPath, k + 1)
               [] OTHER -> Rejected

resolveImportPath(d, sourceFile, importSource) ==
    IF isExternalPackage(importSource) THEN Fulfilled("")
    ELSE tryExtensions(d, ResolveTable[sourceFile][importSource], 1)

\* What analyzeImports gives buildDependencyMap for one import.
ImportInfo(source, specifiers) == [source |-> source, specifiers |-> specifiers]

\* The loop of buildDependencyMap over the imports, from import i on.
RECURSIVE dependenciesFrom(_, _, _, _, _)
dependenciesFrom(d, fsPath, imports, i, deps) ==
    IF i > Len(imports) THEN Fulfilled(deps)
    ELSE LET resolvedPath == resolveImportPath(d, fsPath, imports[i].source)
         IN  IF resolvedPath.state = "rejected" THEN Rejected
             ELSE dependenciesFrom(d, fsPath, imports, i + 1,
                      IF resolvedPath.value # ""
                      THEN Append(deps, [sourceFile |-> fsPath,
                                         targetFile |-> resolvedPath.value,
                                         importedItems |-> imports[i].specifiers,
                                         type |-> "import"])
                      ELSE deps)

buildDependencyMap(d, fsPath, imports) == dependenciesFrom(d, fsPath, imports, 1, <<>>)

\* WorkspaceAnalyzer.analyze, step 3: the import edges of the dependencies
importEdges(fsPath, deps) ==
    [k \in 1..Len(deps) |->
        [from |-> fsPath, to |-> deps[k].targetFile, type |-> "imports",
         label |-> join(deps[k].importedItems, ", ")]]

(***************************************************************************)
(* Import resolution of one file against a disk.                           *)
(***************************************************************************)
ImportLists ==
    UNION {[1..n -> {ImportInfo(x, <<"a", "b">>) : x \in Specifiers}] : n \in 0..MaxImports}

InitImport ==
    /\ phase = "mounted"
    /\ AnalyzeIdle
    /\ disk \in Disks
    /\ importing = NoImports
    /\ dependencies = <<>>
    /\ settled = "pending"
    /\ allNodes = <<>>
    /\ allEdges = <<>>
    /\ graph = NoGraph
    /\ query = NoQuery
    /\ answer = <<>>
    /\ frames = <<>>
    /\ visited = {}
    /\ nodesToInclude = {}
    /\ edgesToInclude = <<>>
    /\ expansions = <<>>
    /\ workspace = {}
    /\ listing = <<>>
    /\ uniqueEntryPoints = <<>>
    /\ entryPoints = <<>>

\* One round of the loop of step 3: the dependencies of a file and their edges;
\* a file whose promise is rejected is skipped.
BuildDependencyMap ==
    /\ phase = "mounted"
    /\ \E f \in ImportingFiles, imports \in ImportLists :
          LET deps == buildDependencyMap(disk, f, imports)
          IN  /\ importing' = [file |-> f, imports |-> imports]
              /\ settled' = deps.state
              /\ dependencies' = IF deps.state = "fulfilled" THEN deps.value ELSE <<>>
              /\ allEdges' = IF deps.state = "fulfilled"
                             THEN allEdges \o importEdges(f, deps.value)
                             ELSE allEdges
    /\ phase' = "mapped"
    /\ UNCHANGED <<disk, allNodes, notImport>>

NextImport == BuildDependencyMap

SpecImport == InitImport /\ [][NextImport]_vars

\* The candidates of an import: the resolved path with each extension, and
\* the resolved path itself.
candidatePaths(f, source) ==
    {ResolveTable[f][source] \o extensions[k] : k \in 1..Len(extensions)}
        \cup {ResolveTable[f][source]}

\* The cases of an import that C10 speaks of.
isBareSpecifier(imp) == ~startsWith(imp.source, ".") /\ ~startsWith(imp.source, "/")

hasSiblingTs(imp) ==
    imp.source = "./sibling" /\ (dirname(importing.file) \o "/sibling.ts") \in disk

hasNoCandidate(imp) ==
    ~isBareSpecifier(imp) /\ candidatePaths(importing.file, imp.source) \cap disk = {}

\* The targets C10 gives the imports from import i on.
RECURSIVE claimedTargets(_)
claimedTargets(i) ==
    IF i > Len(importing.imports) THEN <<>>
    ELSE (IF hasSiblingTs(importing.imports[i])
          THEN <<dirname(importing.file) \o "/sibling.ts">>
          ELSE <<>>) \o claimedTargets(i + 1)

\* C10: buildDependencyMap settles without an error; an import whose
\* specifier starts with neither "." nor "/" gives no dependency and no
\* imports edge, "./sibling" with sibling.ts next to the importing file gives
\* exactly one dependency on the absolute path of sibling.ts, and a relative
\* import without any candidate on disk gives none.
C10_ImportResolution ==
    phase = "mapped" =>
        /\ settled = "fulfilled"
        /\ Len(dependencies) <=
               Cardinality({i \in 1..Len(importing.imports) :
                               ~isBareSpecifier(importing.imports[i])})
        /\ allEdges = [k \in 1..Len(dependencies) |->
                          [from |-> importing.file, to |-> dependencies[k].targetFile,
                           type |-> "imports", label |-> "a, b"]]
        /\ (\A i \in 1..Len(importing.imports) :
                \/ isBareSpecifier(importing.imports[i])
                \/ hasSiblingTs(importing.imports[i])
                \/ hasNoCandidate(importing.imports[i]))
               => [k \in 1..Len(dependencies) |-> dependencies[k].targetFile]
                      = claimedTargets(1)

\* A file importing "react", "./sibling" and "./missing", with react.ts,
\* sibling.ts and sibling.js next to it: one dependency, on sibling.ts.
C10_Witness ==
    /\ phase = "mapped"
    /\ importing.file = "/w/src/app.ts"
    /\ [i \in 1..Len(importing.imports) |-> importing.imports[i].source]
           = <<"react", "./sibling", "./missing">>
    /\ {"/w/src/react.ts", "/w/src/sibling.ts", "/w/src/sibling.js"} \subseteq disk
    /\ Len(dependencies) = 1
    /\ dependencies[1].targetFile = "/w/src/sibling.ts"
    /\ Len(allEdges) = 1

\* The candidates of an import in the order C11 gives them: the resolved path
\* as it is, then with each extension, then each index file.
literalFirstOrder(f, source) ==
    <<ResolveTable[f][source]>>
        \o [k \in 1..Len(extensions) |-> ResolveTable[f][source] \o extensions[k]]

\* C11: the dependency of a relative import is the first candidate that exists
\* in the order literal path, .ts, .tsx, .js, .jsx, .java, /index.*: when the
\* literal path and a path with an extension both exist, the literal path.
C11_LiteralPathFirst ==
    (/\ phase = "mapped"
     /\ Len(importing.imports) = 1
     /\ ~isBareSpecifier(importing.imports[1])
     /\ candidatePaths(importing.file, importing.imports[1].source) \cap disk # {}) =>
        LET order == literalFirstOrder(importing.file, importing.imports[1].source)
        IN  /\ Len(dependencies) = 1
            /\ dependencies[1].targetFile =
                   order[firstIndex({k \in 1..Len(order) : order[k] \in disk})]


(***************************************************************************)
(* ReactParser (parsers/reactParser.ts).  A document is the file's path,   *)
(* whether openTextDocument can read it, the program Babel makes of its    *)
(* content (the declarations the traversal visits, in source order), the   *)
(* content as text, and whether something inside the try of parse throws   *)
(* (Babel rejecting the content, for one).                                 *)
(***************************************************************************)
has(node, field) == field \in DOMAIN node

\* The fields every CodeNode of the model carries; a creator overrides the
\* ones it sets, and a flag it does not set reads as FALSE (undefined).
CodeNode(id, label, type, language, filePath, startLine) ==
    [id |-> id, label |-> label, type |-> type, language |-> language,
     filePath |-> filePath, startLine |-> startLine,
     isEntryPoint |-> FALSE, isPrimaryEntry |-> FALSE,
     props |-> <<>>, visibility |-> "undefined",
     isStatic |-> FALSE, isAsync |-> FALSE]

reactLanguage(fsPath) ==
    IF endsWith(fsPath, ".tsx") \/ endsWith(fsPath, ".ts") THEN "typescript" ELSE "javascript"

\* if (body.type === 'ReturnStatement') return argument is a JSXElement;
\* if (Array.isArray(body.body)) return body.body.some(hasJSXReturn); return false
RECURSIVE hasJSXReturn(_)
hasJSXReturn(body) ==
    IF body.type = "ReturnStatement"
    THEN has(body, "argument") /\ body.argument.type = "JSXElement"
    ELSE IF has(body, "body")
         THEN \E i \in 1..Len(body.body) : hasJSXReturn(body.body[i])
         ELSE FALSE

isReactComponent(node) ==
    IF has(node, "body") /\ node.body.type = "BlockStatement" THEN hasJSXReturn(node.body)
    ELSE IF has(node, "body") /\ node.body.type = "JSXElement" THEN TRUE
    ELSE FALSE

isReactClassComponent(node) ==
    /\ has(node, "superClass")
    /\ \/ node.superClass.type = "Identifier" /\ node.superClass.name = "Component"
       \/ node.superClass.type = "MemberExpression" /\ node.superClass.property = "Component"

\* firstParam.properties.forEach(prop => { if (prop.key) props.push(prop.key.name) })
propertyKeys(properties) ==
    LET keyed == SelectSeq(properties, LAMBDA prop : has(prop, "key"))
    IN  [k \in 1..Len(keyed) |-> keyed[k].key]

\* if (node.params && node.params.length > 0) { first parameter an ObjectPattern: its keys }
extractProps(node) ==
    IF has(node, "params") /\ Len(node.params) > 0 /\ node.params[1].type = "ObjectPattern"
    THEN propertyKeys(node.params[1].properties)
    ELSE <<>>

\* const name = node.id?.name || node.key?.name || 'Anonymous'
declaredName(node) == IF has(node, "id") THEN node.id ELSE "Anonymous"

createComponentNode(node, fsPath) ==
    [CodeNode(fsPath \o ":component:" \o declaredName(node), declaredName(node),
              "component", reactLanguage(fsPath), fsPath, node.line)
        EXCEPT !.props = extractProps(node)]

createFunctionNode(node, fsPath) ==
    CodeNode(fsPath \o ":function:" \o declaredName(node) \o ":" \o ToString(node.line),
             declaredName(node), "function", reactLanguage(fsPath), fsPath, node.line)

createClassComponentNode(node, fsPath) ==
    CodeNode(fsPath \o ":class:" \o declaredName(node), declaredName(node),
             "class", reactLanguage(fsPath), fsPath, node.line)

\* fileName.replace(/\.(tsx?|jsx?)$/, '')
reactBaseName(fsPath) ==
    LET fileName == basename(fsPath)
        cut(ext) == SubSeq(fileName, 1, Len(fileName) - Len(ext))
    IN  IF endsWith(fileName, ".tsx") THEN cut(".tsx")
        ELSE IF endsWith(fileName, ".jsx") THEN cut(".jsx")
        ELSE IF endsWith(fileName, ".ts") THEN cut(".ts")
        ELSE IF endsWith(fileName, ".js") THEN cut(".js")
        ELSE fileName

reactCreateModuleNode(fsPath, name) ==
    [CodeNode(fsPath \o ":module:" \o name, name, "module", reactLanguage(fsPath), fsPath, 1)
        EXCEPT !.isEntryPoint = TRUE]

\* What one visitor of the traversal pushes for the declaration it is given.
visit(node, fsPath) ==
    IF node.type = "FunctionDeclaration"
    THEN IF isReactComponent(node)
         THEN <<createComponentNode(node, fsPath)>>
         ELSE <<createFunctionNode(node, fsPath)>>
    ELSE IF node.type = "VariableDeclarator"
    THEN IF /\ has(node, "init")
            /\ node.init.type \in {"ArrowFunctionExpression", "FunctionExpression"}
            /\ isReactComponent(node.init)
         THEN <<createComponentNode(node, fsPath)>>
         ELSE <<>>
    ELSE IF node.type = "ClassDeclaration"
    THEN IF isReactClassComponent(node)
         THEN <<createClassComponentNode(node, fsPath)>>
         ELSE <<>>
    ELSE <<>>

RECURSIVE reactTraverse(_, _, _)
reactTraverse(program, i, fsPath) ==
    IF i > Len(program) THEN <<>>
    ELSE visit(program[i], fsPath) \o reactTraverse(program, i + 1, fsPath)

isBootstrapFile(text) ==
    includes(text, "createRoot") \/ includes(text, "ReactDOM.render") \/ includes(text, "render(")

\* The mutant settles a failed parse with the nodes pushed before the throw.
reactParseKeepsPushed(doc, isEntryPoint) ==
    IF ~doc.readable THEN [status |-> "rejected"]
    ELSE LET found == reactTraverse(doc.program, 1, doc.fsPath)
             nodes == IF Len(found) = 0 /\ (isBootstrapFile(doc.text) \/ isEntryPoint)
                      THEN <<reactCreateModuleNode(doc.fsPath, reactBaseName(doc.fsPath))>>
                      ELSE found
         IN  [status |-> "fulfilled",
              nodes |-> IF doc.throwsInside THEN take(found, 1) ELSE nodes,
              edges |-> <<>>]

\* parse: openTextDocument is awaited before the try, so its rejection
\* rejects parse; anything thrown inside the try settles with empty lists.
reactParse(doc, isEntryPoint) ==
    IF ~doc.readable THEN [status |-> "rejected"]
    ELSE IF doc.throwsInside THEN [status |-> "fulfilled", nodes |-> <<>>, edges |-> <<>>]
    ELSE LET found == reactTraverse(doc.program, 1, doc.fsPath)
             nodes == IF Len(found) = 0 /\ (isBootstrapFile(doc.text) \/ isEntryPoint)
                      THEN <<reactCreateModuleNode(doc.fsPath, reactBaseName(doc.fsPath))>>
                      ELSE found
         IN  [status |-> "fulfilled", nodes |-> nodes, edges |-> <<>>]


(***************************************************************************)
(* Parsing one TS/JS file.  The declarations a file can hold, each with    *)
(* the source text it is written as; a declaration's line is its place in  *)
(* the file.                                                               *)
(***************************************************************************)
MaxDecls == 2

ObjectPattern(keys) ==
    [type |-> "ObjectPattern", properties |-> [k \in 1..Len(keys) |-> [key |-> keys[k]]]]
Identifier(name) == [type |-> "Identifier", name |-> name]
ReturnJSX == [type |-> "ReturnStatement", argument |-> [type |-> "JSXElement"]]
ReturnSum == [type |-> "ReturnStatement", argument |-> [type |-> "BinaryExpression"]]
Block(stmts) == [type |-> "BlockStatement", body |-> stmts]

Declarations == {
    [type |-> "FunctionDeclaration", id |-> "Greeting",
     params |-> <<ObjectPattern(<<"name">>)>>, body |-> Block(<<ReturnJSX>>),
     source |-> "function Greeting({name}) { return <h1>Hello {name}</h1>; }"],
    [type |-> "FunctionDeclaration", id |-> "add",
     params |-> <<Identifier("a"), Identifier("b")>>, body |-> Block(<<ReturnSum>>),
     source |-> "function add(a,b) { return a+b; }"],
    [type |-> "FunctionDeclaration", id |-> "Page",
     params |-> <<Identifier("props")>>, body |-> Block(<<ReturnJSX>>),
     source |-> "function Page(props) { return <main />; }"],
    [type |-> "VariableDeclarator", id |-> "Card",
     init |-> [type |-> "ArrowFunctionExpression",
               params |-> <<ObjectPattern(<<"title", "body">>)>>,
               body |-> [type |-> "JSXElement"]],
     source |-> "const Card = ({title, body}) => <div>{title}{body}</div>;"],
    [type |-> "VariableDeclarator", id |-> "Item",
     init |-> [type |-> "ArrowFunctionExpression", params |-> <<>>,
               body |-> [type |-> "JSXElement"]],
     source |-> "const Item = () => <li />;"],
    [type |-> "VariableDeclarator", id |-> "Row",
     init |-> [type |-> "FunctionExpression",
               params |-> <<ObjectPattern(<<"cells">>)>>, body |-> Block(<<ReturnJSX>>)],
     source |-> "const Row = function ({cells}) { return <tr>{cells}</tr>; };"],
    [type |-> "VariableDeclarator", id |-> "twice",
     init |-> [type |-> "ArrowFunctionExpression", params |-> <<Identifier("x")>>,
               body |-> [type |-> "BinaryExpression"]],
     source |-> "const twice = (x) => x * 2;"],
    [type |-> "VariableDeclarator", id |-> "limit",
     init |-> [type |-> "NumericLiteral"],
     source |-> "const limit = 10;"],
    [type |-> "ClassDeclaration", id |-> "Panel",
     superClass |-> [type |-> "MemberExpression", property |-> "Component"],
     source |-> "class Panel extends React.Component { render() { return <div />; } }"],
    [type |-> "ClassDeclaration", id |-> "Store",
     source |-> "class Store { }"] }

ReactPaths == {"/w/src/Greeting.tsx", "/w/src/util.js"}
Trailers == {"", "createRoot(el).render(<App />);"}

RECURSIVE sourcesFrom(_, _)
sourcesFrom(program, i) ==
    IF i > Len(program) THEN "" ELSE program[i].source \o "\n" \o sourcesFrom(program, i + 1)

\* The program with each declaration at its line, and the content it is written as.
atLines(decls) == [i \in 1..Len(decls) |-> decls[i] @@ [line |-> i]]

ReactDocument(fsPath, decls, trailer, readable, throwsInside) ==
    [fsPath |-> fsPath, readable |-> readable, throwsInside |-> throwsInside,
     program |-> atLines(decls), text |-> sourcesFrom(decls, 1) \o trailer]

Programs == UNION {[1..n -> Declarations] : n \in 0..MaxDecls}

InitReact ==
    /\ phase = "document"
    /\ \E fsPath \in ReactPaths, decls \in Programs, trailer \in Trailers,
          readable \in BOOLEAN, throwsInside \in BOOLEAN :
          /\ ~readable => ~throwsInside
          /\ document = ReactDocument(fsPath, decls, trailer, readable, throwsInside)
    /\ result = NoResult
    /\ filesToParse = <<>> /\ parseOutcomes = <<>> /\ errors = <<>>
    /\ allNodes = <<>> /\ allEdges = <<>> /\ graph = NoGraph
    /\ entryPoints = <<>>
    /\ QuietElsewhere

\* await this.reactParser.parse(fileUri, isEntryPointFile)
ReactParse ==
    /\ phase = "document"
    /\ \E isEntryPoint \in BOOLEAN : result' = reactParse(document, isEntryPoint)
    /\ phase' = "parsed"
    /\ UNCHANGED <<document, filesToParse, parseOutcomes, errors, graphVars,
                   travVars, entryVars, importVars>>

NextReact == ReactParse

SpecReact == InitReact /\ [][NextReact]_vars


\* The function a declaration declares: the declaration itself, or the
\* function expression bound to the variable.
declaredFunction(decl) == IF decl.type = "VariableDeclarator" THEN decl.init ELSE decl

\* C15: every component node of a parse, whether it comes from a function
\* declaration or from an arrow/function expression bound to a variable,
\* has as props the ordered names destructured in the first parameter of its
\* function when that parameter is an object pattern.
C15_PropsFromFirstParameter ==
    (phase = "parsed" /\ result.status = "fulfilled") =>
        \A i \in 1..Len(result.nodes) :
            result.nodes[i].type = "component" =>
                LET fn == declaredFunction(document.program[result.nodes[i].startLine])
                IN  (Len(fn.params) > 0 /\ fn.params[1].type = "ObjectPattern") =>
                        result.nodes[i].props =
                            [k \in 1..Len(fn.params[1].properties) |->
                                fn.params[1].properties[k].key]

\* The function-declaration half of C15, which the parser does satisfy.
C15_FunctionDeclarationProps ==
    (phase = "parsed" /\ result.status = "fulfilled") =>
        \A i \in 1..Len(result.nodes) :
            LET decl == document.program[result.nodes[i].startLine]
            IN  (result.nodes[i].type # "module" /\ decl.type = "FunctionDeclaration") =>
                    /\ decl.id = "Greeting" =>
                          result.nodes[i].type = "component" /\ result.nodes[i].props = <<"name">>
                    /\ decl.id = "add" => result.nodes[i].type = "function"


\* C16: the nodes of one parse are distinct declarations, so no two of them
\* have the same identity key and graph assembly drops none of them as a
\* duplicate.
C16_KeysUniquePerDeclaration ==
    (phase = "parsed" /\ result.status = "fulfilled") =>
        /\ \A i, j \in 1..Len(result.nodes) :
              i # j => result.nodes[i].id # result.nodes[j].id
        /\ deduplicateNodes(result.nodes) = result.nodes


(***************************************************************************)
(* JavaParser (parsers/javaParser.ts, the line-based parser).  A line is   *)
(* read as its tokens: maximal runs of characters between blanks, with     *)
(* each of ( ) { } ; , a token of its own.  The regular expressions of the *)
(* parser are matched on the tokens.                                       *)
(***************************************************************************)
WordChars == "abcdefghijklmnopqrstuvwxyzABCDEFGHIJKLMNOPQRSTUVWXYZ0123456789_"
Punctuation == "(){};,"

\* Character i of the line is part of a word: neither a blank nor punctuation.
inWord(punctuation, line, i) ==
    /\ i \in 1..Len(line)
    /\ charAt(line, i) # " "
    /\ ~includes(punctuation, charAt(line, i))

\* The places where a token starts: a punctuation character, or the first
\* character of a word.
tokenStarts(punctuation, line) ==
    {i \in 1..Len(line) :
        \/ includes(punctuation, charAt(line, i))
        \/ inWord(punctuation, line, i) /\ ~inWord(punctuation, line, i - 1)}

\* The place where the token that starts at character i ends.
tokenEnd(punctuation, line, i) ==
    IF includes(punctuation, charAt(line, i)) THEN i
    ELSE CHOOSE j \in i..Len(line) :
             /\ \A k \in i..j : inWord(punctuation, line, k)
             /\ ~inWord(punctuation, line, j + 1)

\* The k-th smallest member of a set of numbers.
nth(S, k) == CHOOSE s \in S : Cardinality({t \in S : t < s}) = k - 1

tokensFrom(punctuation, line, starts) ==
    [k \in 1..Cardinality(starts) |->
        SubSeq(line, nth(starts, k), tokenEnd(punctuation, line, nth(starts, k)))]

tokenize(punctuation, line) == tokensFrom(punctuation, line, tokenStarts(punctuation, line))

tokens(line) == tokenize(Punctuation, line)

\* \w+
isWord(tok) == tok # "" /\ \A i \in 1..Len(tok) : includes(WordChars, charAt(tok, i))

\* The '{' and '}' characters of a line, in order.
braces(line) == SelectSeq(tokens(line), LAMBDA tok : tok \in {"{", "}"})

\* for (const char of line) { if (char === '{') braceDepth++; else if (char === '}') braceDepth--; }
RECURSIVE braceDepthAfter(_, _, _)
braceDepthAfter(bs, i, braceDepth) ==
    IF i > Len(bs) THEN braceDepth
    ELSE braceDepthAfter(bs, i + 1, IF bs[i] = "{" THEN braceDepth + 1 ELSE braceDepth - 1)

tokenAt(toks, k) == IF k \in 1..Len(toks) THEN toks[k] ELSE ""

Visibilities == {"public", "private", "protected"}

\* The optional modifier groups of a pattern, in the order the pattern
\* lists them; a group is either taken on the token at hand or skipped.
modifierGroup(name, tok) ==
    IF name = "visibility" THEN tok \in Visibilities ELSE tok = name

\* The token reached from start when the groups are taken as take says, or
\* 0 when a group that is to be taken does not match.
RECURSIVE afterModifiers(_, _, _, _, _)
afterModifiers(toks, groups, taken, k, at) ==
    IF k > Len(groups) THEN at
    ELSE IF ~taken[k] THEN afterModifiers(toks, groups, taken, k + 1, at)
    ELSE IF modifierGroup(groups[k], tokenAt(toks, at))
         THEN afterModifiers(toks, groups, taken, k + 1, at + 1)
         ELSE 0

\* A regular expression prefers taking an optional group to skipping it,
\* the earlier group first.
prefers(a, b) ==
    \/ a = b
    \/ \E k \in DOMAIN a : a[k] /\ ~b[k] /\ \A j \in 1..(k - 1) : a[j] = b[j]

methodModifiers == <<"visibility", "abstract", "static", "final", "synchronized">>

\* (\w+)\s+(\w+)\s*\(([^)]*)\) at token at
methodHead(toks, at) ==
    /\ at > 0
    /\ isWord(tokenAt(toks, at))
    /\ isWord(tokenAt(toks, at + 1))
    /\ tokenAt(toks, at + 2) = "("
    /\ \E k \in (at + 3)..Len(toks) : toks[k] = ")"

methodMatches(toks, start) ==
    {taken \in [1..Len(methodModifiers) -> BOOLEAN] :
        methodHead(toks, afterModifiers(toks, methodModifiers, taken, 1, start))}

NoMatch == [matched |-> FALSE]

\* The way of taking the optional groups that the regular expression settles on.
preferred(matches) == CHOOSE a \in matches : \A b \in matches : prefers(a, b)

\* The groups of a match of the method pattern that starts at token start,
\* takes its modifiers as taken says and has its head at token at.
methodGroups(toks, start, taken, at) ==
    [matched |-> TRUE,
     visibility |-> IF taken[1] THEN toks[start] ELSE "public",
     isAbstract |-> taken[2], isStatic |-> taken[3],
     isFinal |-> taken[4], isSynchronized |-> taken[5],
     returnType |-> toks[at], name |-> toks[at + 1]]

methodMatchTaking(toks, start, taken) ==
    methodGroups(toks, start, taken, afterModifiers(toks, methodModifiers, taken, 1, start))

methodMatchAt(toks, start) ==
    IF start = 0 THEN NoMatch
    ELSE methodMatchTaking(toks, start, preferred(methodMatches(toks, start)))

\* line.match(pattern) of parseMethodLine: the leftmost match, with its groups.
matchMethodPattern(toks) ==
    methodMatchAt(toks, firstIndex({start \in 1..Len(toks) : methodMatches(toks, start) # {}}))

\* if (!match) return null; if (name === className) return null;
methodOf(match, className) ==
    IF ~match.matched THEN NoMatch
    ELSE IF match.name = className THEN NoMatch
    ELSE match @@ [className |-> className]

\* parseMethodLine: no match, or a constructor, gives null.
parseMethodLine(line, className) == methodOf(matchMethodPattern(tokens(line)), className)

classModifiers == <<"visibility", "abstract", "static", "final">>

\* class\s+(\w+) at token at
classHead(toks, at) ==
    at > 0 /\ tokenAt(toks, at) = "class" /\ isWord(tokenAt(toks, at + 1))

classMatches(toks, start) ==
    {taken \in [1..Len(classModifiers) -> BOOLEAN] :
        classHead(toks, afterModifiers(toks, classModifiers, taken, 1, start))}

\* The names of an implements or extends list: the words up to the '{'.
RECURSIVE namesUntilBrace(_, _)
namesUntilBrace(toks, k) ==
    IF k > Len(toks) \/ toks[k] = "{" THEN <<>>
    ELSE IF toks[k] = "," THEN namesUntilBrace(toks, k + 1)
    ELSE <<toks[k]>> \o namesUntilBrace(toks, k + 1)

\* The groups of a match of the class pattern that starts at token start,
\* takes its modifiers as taken says and has `class` at token at.
classGroups(toks, start, taken, at) ==
    LET hasExtends == tokenAt(toks, at + 2) = "extends" /\ isWord(tokenAt(toks, at + 3))
        rest  == IF hasExtends THEN at + 4 ELSE at + 2
    IN  [matched |-> TRUE, name |-> toks[at + 1],
         visibility |-> IF taken[1] THEN toks[start] ELSE "public",
         isAbstract |-> taken[2], isStatic |-> taken[3], isFinal |-> taken[4],
         extendsClass |-> IF hasExtends THEN toks[at + 3] ELSE "null",
         implementsInterfaces |->
             IF tokenAt(toks, rest) = "implements"
             THEN namesUntilBrace(toks, rest + 1) ELSE <<>>]

classMatchTaking(toks, start, taken) ==
    classGroups(toks, start, taken, afterModifiers(toks, classModifiers, taken, 1, start))

classMatchAt(toks, start) ==
    IF start = 0 THEN NoMatch
    ELSE classMatchTaking(toks, start, preferred(classMatches(toks, start)))

matchClassPattern(toks) ==
    classMatchAt(toks, firstIndex({start \in 1..Len(toks) : classMatches(toks, start) # {}}))

\* parseClassLine: the leftmost match of the class pattern, or null.
parseClassLine(line) == matchClassPattern(tokens(line))

\* line.match(/^\s*@(\w+(?:\([^)]*\))?)/)
annotationMatch(line) ==
    LET toks == tokens(line)
    IN  Len(toks) > 0 /\ startsWith(toks[1], "@") /\ Len(toks[1]) > 1

\* line.includes(' class ') || line.match(/^\s*(public|private|protected)?\s*class\s/)
isClassLine(line) ==
    LET toks == tokens(line)
    IN  \/ includes(line, " class ")
        \/ tokenAt(toks, 1) = "class" /\ Len(toks) > 1
        \/ tokenAt(toks, 1) \in Visibilities /\ tokenAt(toks, 2) = "class" /\ Len(toks) > 2

\* line.includes(' interface ') || line.match(/^\s*(public|private|protected)?\s*interface\s/)
isInterfaceLine(line) ==
    LET toks == tokens(line)
    IN  \/ includes(line, " interface ")
        \/ tokenAt(toks, 1) = "interface" /\ Len(toks) > 1
        \/ tokenAt(toks, 1) \in Visibilities /\ tokenAt(toks, 2) = "interface" /\ Len(toks) > 2

\* interface\s+(\w+) at token at
interfaceHead(toks, at) == tokenAt(toks, at) = "interface" /\ isWord(tokenAt(toks, at + 1))

interfaceMatchAt(toks, at) ==
    IF at = 0 THEN NoMatch
    ELSE [matched |-> TRUE, name |-> toks[at + 1],
          visibility |-> IF tokenAt(toks, at - 1) \in Visibilities
                         THEN toks[at - 1] ELSE "public",
          extendsInterfaces |->
              IF tokenAt(toks, at + 2) = "extends"
              THEN namesUntilBrace(toks, at + 3) ELSE <<>>]

matchInterfacePattern(toks) ==
    interfaceMatchAt(toks, firstIndex({at \in 1..Len(toks) : interfaceHead(toks, at)}))

\* The interface pattern of parseInterfaces: the leftmost match, or null.
parseInterfaceLine(line) == matchInterfacePattern(tokens(line))


\* The line with 0-based number i.
lineAt(lines, i) == lines[i + 1]

\* findBlockEnd: the line on which the brace count, once a '{' has been
\* seen, first returns to 0; else the last line.
RECURSIVE findBlockEndFrom(_, _, _, _, _)
findBlockEndFrom(lines, i, k, braceCount, started) ==
    IF i >= Len(lines) THEN Len(lines) - 1
    ELSE LET bs == braces(lineAt(lines, i))
         IN  IF k > Len(bs) THEN findBlockEndFrom(lines, i + 1, 1, braceCount, started)
             ELSE IF bs[k] = "{"
                  THEN findBlockEndFrom(lines, i, k + 1, braceCount + 1, TRUE)
                  ELSE IF started /\ braceCount - 1 = 0 THEN i
                       ELSE findBlockEndFrom(lines, i, k + 1, braceCount - 1, started)

findBlockEnd(lines, startLine) == findBlockEndFrom(lines, startLine, 1, 0, FALSE)

\* parseClasses: every line that declares a class, with the end of its block.
\* if (match) { list.push({...match, ...where}) }
pushMatched(match, where) == IF match.matched THEN <<match @@ where>> ELSE <<>>

RECURSIVE parseClassesFrom(_, _)
parseClassesFrom(lines, i) ==
    IF i >= Len(lines) THEN <<>>
    ELSE (IF ~annotationMatch(lineAt(lines, i)) /\ isClassLine(lineAt(lines, i))
          THEN pushMatched(parseClassLine(lineAt(lines, i)),
                           [startLine |-> i, endLine |-> findBlockEnd(lines, i)])
          ELSE <<>>)
             \o parseClassesFrom(lines, i + 1)

parseClasses(lines) == parseClassesFrom(lines, 0)

RECURSIVE parseInterfacesFrom(_, _)
parseInterfacesFrom(lines, i) ==
    IF i >= Len(lines) THEN <<>>
    ELSE (IF ~annotationMatch(lineAt(lines, i)) /\ isInterfaceLine(lineAt(lines, i))
          THEN pushMatched(parseInterfaceLine(lineAt(lines, i)),
                           [startLine |-> i, endLine |-> findBlockEnd(lines, i)])
          ELSE <<>>)
             \o parseInterfacesFrom(lines, i + 1)

parseInterfaces(lines) == parseInterfacesFrom(lines, 0)

\* parseMethods: the brace depth is brought up to the end of the line, and
\* a method is looked for on the line when that depth is 1.
RECURSIVE parseMethodsFrom(_, _, _, _, _)
methodsOnLine(line, i, className, depth) ==
    IF annotationMatch(line) /\ depth = 1 THEN <<>>
    ELSE IF depth = 1 /\ ~includes(line, " class ") /\ ~includes(line, " interface ")
         THEN pushMatched(parseMethodLine(line, className), [startLine |-> i])
         ELSE <<>>

parseMethodsAt(lines, i, classEndLine, className, depth) ==
    methodsOnLine(lineAt(lines, i), i, className, depth)
        \o parseMethodsFrom(lines, i + 1, classEndLine, className, depth)

parseMethodsFrom(lines, i, classEndLine, className, braceDepth) ==
    IF ~(i <= classEndLine /\ i < Len(lines)) THEN <<>>
    ELSE parseMethodsAt(lines, i, classEndLine, className,
                        braceDepthAfter(braces(lineAt(lines, i)), 1, braceDepth))

parseMethods(lines, classStartLine, classEndLine, className) ==
    parseMethodsFrom(lines, classStartLine, classEndLine, className, 0)

createClassNode(cls, fsPath) ==
    [CodeNode(fsPath \o ":class:" \o cls.name, cls.name, "class", "java", fsPath,
              cls.startLine + 1)
        EXCEPT !.visibility = cls.visibility, !.isStatic = cls.isStatic]

createInterfaceNode(iface, fsPath) ==
    [CodeNode(fsPath \o ":interface:" \o iface.name, iface.name, "interface", "java",
              fsPath, iface.startLine + 1)
        EXCEPT !.visibility = iface.visibility]

createMethodNode(method, fsPath) ==
    [CodeNode(fsPath \o ":method:" \o method.className \o "." \o method.name \o ":"
                  \o ToString(method.startLine),
              method.name, "method", "java", fsPath, method.startLine + 1)
        EXCEPT !.visibility = method.visibility, !.isStatic = method.isStatic,
               !.isAsync = method.isSynchronized]

javaCreateModuleNode(fsPath, name) ==
    [CodeNode(fsPath \o ":module:" \o name, name, "module", "java", fsPath, 1)
        EXCEPT !.isEntryPoint = TRUE]

CodeEdge(from, to, type, label) == [from |-> from, to |-> to, type |-> type, label |-> label]

\* The nodes and edges pushed for one class: the class node, a method node
\* and a contains edge per method, then the inheritance edges.
classNodes(cls, lines, fsPath) ==
    LET methods == parseMethods(lines, cls.startLine, cls.endLine, cls.name)
    IN  <<createClassNode(cls, fsPath)>>
            \o [k \in 1..Len(methods) |-> createMethodNode(methods[k], fsPath)]

classEdges(cls, lines, fsPath) ==
    LET methods == parseMethods(lines, cls.startLine, cls.endLine, cls.name)
    IN  [k \in 1..Len(methods) |->
            CodeEdge(fsPath, fsPath, "contains", cls.name \o " contains " \o methods[k].name)]
        \o (IF cls.extendsClass # "null"
            THEN <<CodeEdge(fsPath, cls.extendsClass, "extends", "extends " \o cls.extendsClass)>>
            ELSE <<>>)
        \o [k \in 1..Len(cls.implementsInterfaces) |->
               CodeEdge(fsPath, cls.implementsInterfaces[k], "implements",
                        "implements " \o cls.implementsInterfaces[k])]

interfaceEdges(iface, fsPath) ==
    [k \in 1..Len(iface.extendsInterfaces) |->
        CodeEdge(fsPath, iface.extendsInterfaces[k], "extends",
                 "extends " \o iface.extendsInterfaces[k])]

\* extractImports: an edge per line `import [static] path;`
RECURSIVE extractImports(_, _, _)
extractImports(lines, i, fsPath) ==
    IF i >= Len(lines) THEN <<>>
    ELSE LET toks == tokens(lineAt(lines, i))
             isStatic == tokenAt(toks, 2) = "static"
             at == IF isStatic THEN 3 ELSE 2
         IN  (IF tokenAt(toks, 1) = "import" /\ tokenAt(toks, at) \notin {"", ";"}
                 /\ tokenAt(toks, at + 1) = ";"
              THEN <<CodeEdge(fsPath, toks[at], "imports",
                              IF isStatic THEN "static import" ELSE "import")>>
              ELSE <<>>) \o extractImports(lines, i + 1, fsPath)

RECURSIVE flatten(_, _)
flatten(lists, i) == IF i > Len(lists) THEN <<>> ELSE lists[i] \o flatten(lists, i + 1)

\* fileName.replace(/\.java$/, '')
javaBaseName(fsPath) ==
    LET fileName == basename(fsPath)
    IN  IF endsWith(fileName, ".java") THEN SubSeq(fileName, 1, Len(fileName) - 5) ELSE fileName

\* parse: openTextDocument is awaited before the try, so its rejection
\* rejects parse; anything thrown inside the try settles with empty lists.
\* The mutant pushes the module node for every file without nodes.
orModuleNodeUnflagged(found, isEntryPoint, moduleNode) ==
    IF Len(found) = 0 THEN <<moduleNode>> ELSE found

\* if (nodes.length === 0 && isEntryPoint) { nodes.push(moduleNode) }
orModuleNode(found, isEntryPoint, moduleNode) ==
    IF Len(found) = 0 /\ isEntryPoint THEN <<moduleNode>> ELSE found

\* The body of the try of parse, on the classes and interfaces of the file.
javaSettle(classes, interfaces, doc, isEntryPoint) ==
    [status |-> "fulfilled",
     nodes |->
        orModuleNode(
            flatten([k \in 1..Len(classes) |-> classNodes(classes[k], doc.lines, doc.fsPath)], 1)
                \o [k \in 1..Len(interfaces) |-> createInterfaceNode(interfaces[k], doc.fsPath)],
            isEntryPoint,
            javaCreateModuleNode(doc.fsPath, javaBaseName(doc.fsPath))),
     edges |->
        flatten([k \in 1..Len(classes) |-> classEdges(classes[k], doc.lines, doc.fsPath)], 1)
            \o flatten([k \in 1..Len(interfaces) |-> interfaceEdges(interfaces[k], doc.fsPath)], 1)
            \o extractImports(doc.lines, 0, doc.fsPath)]

javaParse(doc, isEntryPoint) ==
    IF ~doc.readable THEN [status |-> "rejected"]
    ELSE IF doc.throwsInside THEN [status |-> "fulfilled", nodes |-> <<>>, edges |-> <<>>]
    ELSE javaSettle(parseClasses(doc.lines), parseInterfaces(doc.lines), doc, isEntryPoint)


(***************************************************************************)
(* Parsing one Java file: a class Foo with up to MaxMembers members, each  *)
(* written as the lines below, or one of the fixed files.                  *)
(***************************************************************************)
MaxMembers == 2

Members == {
    <<"    public void bar() {", "        run();", "    }">>,
    <<"    public void baz() { run(); }">>,
    <<"    private static synchronized int count()", "    {", "        return 0;", "    }">>,
    <<"    public Foo() { }">>,
    <<"    @Override", "    protected abstract void act();">>,
    <<"    static class Builder {", "        public Foo build() { return null; }", "    }">> }

MemberLists == UNION {[1..n -> Members] : n \in 0..MaxMembers}

classFile(members) == <<"import java.util.List;", "public class Foo {">> \o flatten(members, 1) \o <<"}">>

FixedJavaFiles == {
    <<"public class Foo { public void bar() {} }">>,
    <<"public interface Shape extends Drawable {", "    double area();", "}">>,
    <<"// nothing declared">> }

JavaFiles == {classFile(members) : members \in MemberLists} \cup FixedJavaFiles

JavaPaths == {"/w/src/Foo.java"}

JavaDocument(fsPath, lines, readable, throwsInside) ==
    [fsPath |-> fsPath, readable |-> readable, throwsInside |-> throwsInside, lines |-> lines]

InitJava ==
    /\ phase = "document"
    /\ \E fsPath \in JavaPaths, lines \in JavaFiles, readable \in BOOLEAN, throwsInside \in BOOLEAN :
          /\ ~readable => ~throwsInside
          /\ document = JavaDocument(fsPath, lines, readable, throwsInside)
    /\ result = NoResult
    /\ filesToParse = <<>> /\ parseOutcomes = <<>> /\ errors = <<>>
    /\ allNodes = <<>> /\ allEdges = <<>> /\ graph = NoGraph
    /\ entryPoints = <<>>
    /\ QuietElsewhere

\* await this.javaParser.parse(fileUri, isEntryPointFile)
JavaParse ==
    /\ phase = "document"
    /\ \E isEntryPoint \in BOOLEAN : result' = javaParse(document, isEntryPoint)
    /\ phase' = "parsed"
    /\ UNCHANGED <<document, filesToParse, parseOutcomes, errors, graphVars,
                   travVars, entryVars, importVars>>

NextJava == JavaParse

SpecJava == InitJava /\ [][NextJava]_vars

nodesOfType(type) == SelectSeq(result.nodes, LAMBDA n : n.type = type)
edgesOfType(type) == SelectSeq(result.edges, LAMBDA e : e.type = type)

\* C14: parsing the file whose whole content is the line
\* `public class Foo { public void bar() {} }` yields exactly two nodes, the
\* class Foo and the method bar, and exactly one contains edge; bar is
\* public and neither static nor async.
C14_ClassAndMethodOnOneLine ==
    (/\ phase = "parsed"
     /\ result.status = "fulfilled"
     /\ ~document.throwsInside
     /\ document.lines = <<"public class Foo { public void bar() {} }">>) =>
        /\ Len(result.nodes) = 2
        /\ Len(nodesOfType("class")) = 1 /\ nodesOfType("class")[1].label = "Foo"
        /\ Len(nodesOfType("method")) = 1
        /\ nodesOfType("method")[1].label = "bar"
        /\ nodesOfType("method")[1].visibility = "public"
        /\ ~nodesOfType("method")[1].isStatic
        /\ ~nodesOfType("method")[1].isAsync
        /\ Len(edgesOfType("contains")) = 1


\* The 0-based line on which member m of a class file starts.
RECURSIVE memberStart(_, _)
memberStart(members, m) ==
    IF m = 1 THEN 2 ELSE memberStart(members, m - 1) + Len(members[m - 1])

\* The method a member declares directly in the body of Foo with its opening
\* brace on the declaration line: the body on following lines, or on the line.
methodDeclared(member) ==
    IF member[1] = "    public void bar() {" THEN "bar"
    ELSE IF member[1] = "    public void baz() { run(); }" THEN "baz"
    ELSE ""

methodNodesOfFoo(name, line) ==
    {i \in 1..Len(result.nodes) :
        /\ result.nodes[i].type = "method"
        /\ result.nodes[i].id =
               document.fsPath \o ":method:Foo." \o name \o ":" \o ToString(line)}

\* C20: each non-constructor method declared directly in the body of a class
\* yields exactly one method node, whether its body follows the declaration
\* line or is on that line; a constructor and a method of a nested class
\* yield no method node of the class.
C20_OneNodePerDirectMethod ==
    (phase = "parsed" /\ result.status = "fulfilled" /\ ~document.throwsInside) =>
        \A members \in MemberLists :
            document.lines = classFile(members) =>
                \A m \in 1..Len(members) :
                    LET line == memberStart(members, m)
                    IN  /\ methodDeclared(members[m]) # "" =>
                              Cardinality(methodNodesOfFoo(methodDeclared(members[m]), line)) = 1
                        /\ members[m][1] = "    public Foo() { }" =>
                              methodNodesOfFoo("Foo", line) = {}
                        /\ members[m][1] = "    static class Builder {" =>
                              methodNodesOfFoo("build", line + 1) = {}

\* The part of C20 the parser satisfies: the one-line form, constructors
\* and nested methods.
C20_OneLineMethods ==
    (phase = "parsed" /\ result.status = "fulfilled" /\ ~document.throwsInside) =>
        \A members \in MemberLists :
            document.lines = classFile(members) =>
                \A m \in 1..Len(members) :
                    LET line == memberStart(members, m)
                    IN  /\ methodDeclared(members[m]) = "baz" =>
                              Cardinality(methodNodesOfFoo("baz", line)) = 1
                        /\ members[m][1] = "    public Foo() { }" =>
                              methodNodesOfFoo("Foo", line) = {}
                        /\ members[m][1] = "    static class Builder {" =>
                              methodNodesOfFoo("build", line + 1) = {}


(***************************************************************************)
(* PythonParser (parsers/pythonParser.ts).  Lines are read as tokens, with *)
(* each of ( ) : , a token of its own; the indentation of a line is the    *)
(* number of blanks it starts with.                                        *)
(***************************************************************************)
PythonPunctuation == "():,"

pythonTokens(line) == tokenize(PythonPunctuation, line)

\* line.length - line.trimStart().length
lineIndent(line) ==
    IF \A i \in 1..Len(line) : charAt(line, i) = " " THEN Len(line)
    ELSE firstIndex({i \in 1..Len(line) : charAt(line, i) # " "}) - 1

\* line.trim() === ''
isBlank(line) == pythonTokens(line) = <<>>

\* line.trim().startsWith('#')
isComment(line) == ~isBlank(line) /\ startsWith(pythonTokens(line)[1], "#")

\* line.match(/^(\s*)@(\w+(?:\.\w+)*(?:\([^)]*\))?)/)
decoratorMatch(line) ==
    LET toks == pythonTokens(line)
    IN  Len(toks) > 0 /\ startsWith(toks[1], "@") /\ Len(toks[1]) > 1

decoratorName(line) ==
    LET tok == pythonTokens(line)[1] IN SubSeq(tok, 2, Len(tok))

\* The names between the parentheses that open at token k.
RECURSIVE namesUntilParen(_, _)
namesUntilParen(toks, k) ==
    IF k > Len(toks) \/ toks[k] = ")" THEN <<>>
    ELSE IF toks[k] = "," THEN namesUntilParen(toks, k + 1)
    ELSE <<toks[k]>> \o namesUntilParen(toks, k + 1)

\* /^(\s*)class\s+(\w+)(?:\s*\((.*?)\))?\s*:/
pythonClassMatch(line) ==
    LET toks == pythonTokens(line)
        closing == {k \in 4..Len(toks) : toks[k] = ")" /\ tokenAt(toks, k + 1) = ":"}
    IN  IF tokenAt(toks, 1) = "class" /\ isWord(tokenAt(toks, 2)) /\ tokenAt(toks, 3) = ":"
        THEN [matched |-> TRUE, indent |-> lineIndent(line), name |-> toks[2], bases |-> <<>>]
        ELSE IF /\ tokenAt(toks, 1) = "class" /\ isWord(tokenAt(toks, 2))
                /\ tokenAt(toks, 3) = "(" /\ closing # {}
        THEN [matched |-> TRUE, indent |-> lineIndent(line), name |-> toks[2],
              bases |-> SelectSeq(namesUntilParen(toks, 4), LAMBDA b : b # "object")]
        ELSE NoMatch

\* /^(\s*)(async\s+)?def\s+(\w+)\s*\((.*?)\)(?:\s*->\s*(.+?))?\s*:/
pythonDefMatch(line) ==
    LET toks    == pythonTokens(line)
        isAsync == tokenAt(toks, 1) = "async"
        at      == IF isAsync THEN 2 ELSE 1
        closing == {k \in (at + 3)..Len(toks) :
                       /\ toks[k] = ")"
                       /\ \/ tokenAt(toks, k + 1) = ":"
                          \/ /\ tokenAt(toks, k + 1) = "->"
                             /\ \E c \in (k + 3)..Len(toks) : toks[c] = ":"}
    IN  IF /\ tokenAt(toks, at) = "def" /\ isWord(tokenAt(toks, at + 1))
           /\ tokenAt(toks, at + 2) = "(" /\ closing # {}
        THEN [matched |-> TRUE, indent |-> lineIndent(line), name |-> toks[at + 1],
              isAsync |-> isAsync]
        ELSE NoMatch

\* findBlockEnd: the last line after startLine that is indented deeper than
\* the block, before the first line that is not; blank and comment lines
\* are passed over.
RECURSIVE pythonBlockEndFrom(_, _, _, _)
pythonBlockEndFrom(lines, i, blockIndent, endLine) ==
    IF i >= Len(lines) THEN endLine
    ELSE LET line == lineAt(lines, i)
         IN  IF isBlank(line) \/ isComment(line)
             THEN pythonBlockEndFrom(lines, i + 1, blockIndent, endLine)
             ELSE IF lineIndent(line) <= blockIndent THEN endLine
             ELSE pythonBlockEndFrom(lines, i + 1, blockIndent, i)

pythonFindBlockEnd(lines, startLine, blockIndent) ==
    pythonBlockEndFrom(lines, startLine + 1, blockIndent, startLine)

\* parseMethods of a class: the def lines between startLine and endLine
\* indented by at least classIndent + 4, with the decorators before them.
RECURSIVE pythonParseMethodsFrom(_, _, _, _, _)
\* One turn of the loop of parseMethods, on the line and its def match.
pythonMethodsOn(lines, i, endLine, expectedIndent, currentDecorators, line, match) ==
    LET next(decorators) ==
            pythonParseMethodsFrom(lines, i + 1, endLine, expectedIndent, decorators)
    IN  IF lineIndent(line) < expectedIndent /\ ~isBlank(line)
        THEN next(currentDecorators)
        ELSE IF decoratorMatch(line) /\ lineIndent(line) >= expectedIndent
        THEN next(Append(currentDecorators, decoratorName(line)))
        ELSE IF match.matched /\ match.indent >= expectedIndent
        THEN <<[name |-> match.name, startLine |-> i, isAsync |-> match.isAsync,
                isStatic |-> "staticmethod" \in Range(currentDecorators)]>>
                 \o next(<<>>)
        ELSE IF ~decoratorMatch(line) /\ ~isBlank(line) /\ ~isComment(line)
        THEN next(<<>>)
        ELSE next(currentDecorators)

pythonParseMethodsFrom(lines, i, endLine, expectedIndent, currentDecorators) ==
    IF ~(i <= endLine /\ i < Len(lines)) THEN <<>>
    ELSE pythonMethodsOn(lines, i, endLine, expectedIndent, currentDecorators,
                         lineAt(lines, i), pythonDefMatch(lineAt(lines, i)))

pythonParseMethods(lines, startLine, endLine, classIndent) ==
    pythonParseMethodsFrom(lines, startLine, endLine, classIndent + 4, <<>>)

\* The class pushed for a class line, with its methods.
pythonClassWithMethods(lines, i, match, endLine) ==
    [name |-> match.name, startLine |-> i, endLine |-> endLine, bases |-> match.bases,
     methods |-> pythonParseMethods(lines, i + 1, endLine, match.indent)]

pythonClassOn(lines, i, match) ==
    IF match.matched
    THEN <<pythonClassWithMethods(lines, i, match, pythonFindBlockEnd(lines, i, match.indent))>>
    ELSE <<>>

RECURSIVE pythonParseClassesFrom(_, _)
pythonParseClassesFrom(lines, i) ==
    IF i >= Len(lines) THEN <<>>
    ELSE (IF ~decoratorMatch(lineAt(lines, i))
          THEN pythonClassOn(lines, i, pythonClassMatch(lineAt(lines, i)))
          ELSE <<>>)
             \o pythonParseClassesFrom(lines, i + 1)

pythonParseClasses(lines) == pythonParseClassesFrom(lines, 0)

\* parseStandaloneFunctions: the def lines that start in column 0 outside
\* the line ranges of the classes.
\* The function pushed for a def match in column 0.
standaloneFunctionOn(match, i) ==
    IF match.matched /\ match.indent = 0
    THEN <<[name |-> match.name, startLine |-> i, isAsync |-> match.isAsync]>>
    ELSE <<>>

RECURSIVE parseStandaloneFunctionsFrom(_, _, _)
parseStandaloneFunctionsFrom(lines, classRanges, i) ==
    IF i >= Len(lines) THEN <<>>
    ELSE (IF i \in classRanges THEN <<>>
          ELSE IF decoratorMatch(lineAt(lines, i)) /\ lineIndent(lineAt(lines, i)) = 0 THEN <<>>
          ELSE standaloneFunctionOn(pythonDefMatch(lineAt(lines, i)), i))
             \o parseStandaloneFunctionsFrom(lines, classRanges, i + 1)

parseStandaloneFunctions(lines, classes) ==
    parseStandaloneFunctionsFrom(lines,
        UNION {classes[k].startLine..classes[k].endLine : k \in 1..Len(classes)}, 0)

\* '__x' without a trailing '__' is private, another '_x' is protected.
pythonVisibility(name) ==
    IF startsWith(name, "__") /\ ~endsWith(name, "__") THEN "private"
    ELSE IF startsWith(name, "_") THEN "protected"
    ELSE "public"

pythonCreateClassNode(cls, fsPath) ==
    [CodeNode(fsPath \o ":class:" \o cls.name, cls.name, "class", "python", fsPath,
              cls.startLine + 1)
        EXCEPT !.visibility = IF startsWith(cls.name, "_") THEN "private" ELSE "public"]

pythonCreateMethodNode(method, className, fsPath) ==
    [CodeNode(fsPath \o ":method:" \o className \o "." \o method.name \o ":"
                  \o ToString(method.startLine),
              method.name, "method", "python", fsPath, method.startLine + 1)
        EXCEPT !.visibility = pythonVisibility(method.name),
               !.isAsync = method.isAsync, !.isStatic = method.isStatic]

pythonCreateFunctionNode(func, fsPath) ==
    [CodeNode(fsPath \o ":function:" \o func.name \o ":" \o ToString(func.startLine),
              func.name, "function", "python", fsPath, func.startLine + 1)
        EXCEPT !.visibility = pythonVisibility(func.name), !.isAsync = func.isAsync]

pythonCreateModuleNode(fsPath, name) ==
    [CodeNode(fsPath \o ":module:" \o name, name, "module", "python", fsPath, 1)
        EXCEPT !.isEntryPoint = TRUE]

pythonClassNodes(cls, fsPath) ==
    <<pythonCreateClassNode(cls, fsPath)>>
        \o [k \in 1..Len(cls.methods) |-> pythonCreateMethodNode(cls.methods[k], cls.name, fsPath)]

pythonClassEdges(cls, fsPath) ==
    [k \in 1..Len(cls.methods) |->
        CodeEdge(fsPath, fsPath, "contains", cls.name \o " contains " \o cls.methods[k].name)]
    \o [k \in 1..Len(cls.bases) |->
        CodeEdge(fsPath, cls.bases[k], "extends", "extends " \o cls.bases[k])]

\* The words after `import`, joined as they are written.
RECURSIVE joinWords(_, _)
joinWords(toks, k) ==
    IF k > Len(toks) THEN ""
    ELSE toks[k] \o (IF k < Len(toks) /\ toks[k + 1] # "," THEN " " ELSE "")
             \o joinWords(toks, k + 1)

\* extractImports: an edge per `import module` and per `from module import items`.
RECURSIVE pythonExtractImports(_, _, _)
pythonExtractImports(lines, i, fsPath) ==
    IF i >= Len(lines) THEN <<>>
    ELSE LET toks == pythonTokens(lineAt(lines, i))
         IN  (IF tokenAt(toks, 1) = "import" /\ Len(toks) > 1
              THEN <<CodeEdge(fsPath, toks[2], "imports", "import " \o toks[2])>>
              ELSE IF /\ tokenAt(toks, 1) = "from" /\ tokenAt(toks, 3) = "import"
                      /\ Len(toks) > 3
              THEN <<CodeEdge(fsPath, toks[2], "imports", joinWords(toks, 4))>>
              ELSE <<>>) \o pythonExtractImports(lines, i + 1, fsPath)

\* fileName.replace(/\.py$/, '')
pythonBaseName(fsPath) ==
    LET fileName == basename(fsPath)
    IN  IF endsWith(fileName, ".py") THEN SubSeq(fileName, 1, Len(fileName) - 3) ELSE fileName

\* parse: openTextDocument is awaited before the try, so its rejection
\* rejects parse; anything thrown inside the try settles with empty lists.
\* The body of the try of parse, on the classes and functions of the file.
pythonSettle(classes, functions, doc, isEntryPoint) ==
    [status |-> "fulfilled",
     nodes |->
        orModuleNode(
            flatten([k \in 1..Len(classes) |-> pythonClassNodes(classes[k], doc.fsPath)], 1)
                \o [k \in 1..Len(functions) |-> pythonCreateFunctionNode(functions[k], doc.fsPath)],
            isEntryPoint,
            pythonCreateModuleNode(doc.fsPath, pythonBaseName(doc.fsPath))),
     edges |->
        flatten([k \in 1..Len(classes) |-> pythonClassEdges(classes[k], doc.fsPath)], 1)
            \o pythonExtractImports(doc.lines, 0, doc.fsPath)]

pythonSettleClasses(classes, doc, isEntryPoint) ==
    pythonSettle(classes, parseStandaloneFunctions(doc.lines, classes), doc, isEntryPoint)

pythonParse(doc, isEntryPoint) ==
    IF ~doc.readable THEN [status |-> "rejected"]
    ELSE IF doc.throwsInside THEN [status |-> "fulfilled", nodes |-> <<>>, edges |-> <<>>]
    ELSE pythonSettleClasses(pythonParseClasses(doc.lines), doc, isEntryPoint)

(***************************************************************************)
(* WorkspaceAnalyzer.analyze (analyzers/workspaceAnalyzer.ts, lines 28 to   *)
(* 200) on a workspace folder /w.  The files that may be in the folder,    *)
(* with the content the entry-point detector reads, the document the       *)
(* parsers read and the dependencies the import analyzer resolves.         *)
(***************************************************************************)
AnalyzeFiles ==
    <<File("/w/scripts/job.py", PythonMainText),
      File("/w/server/Launcher.java", JavaMainText),
      File("/w/src/App.tsx", ""),
      File("/w/src/boot.ts", "createRoot(el).render(<App />);"),
      File("/w/src/index.tsx", ""),
      File("/w/src/styles.css", "")>>

AnalyzePaths == {AnalyzeFiles[i].path : i \in 1..Len(AnalyzeFiles)}

DocumentTable ==
    [p \in AnalyzePaths |->
        CASE p = "/w/scripts/job.py" ->
                [fsPath |-> p,
                 lines |-> <<"import os", "class Job:", "    def run(self):", "        pass",
                             "def main():", "    Job().run()", PythonMainText>>]
          [] p = "/w/server/Launcher.java" ->
                [fsPath |-> p,
                 lines |-> <<"import java.util.List;", "public class Launcher {",
                             "    " \o JavaMainText, "    void stop() { }", "}">>]
          [] p = "/w/src/App.tsx" ->
                [fsPath |-> p,
                 program |-> atLines(<<CHOOSE d \in Declarations : d.id = "Greeting",
                                       CHOOSE d \in Declarations : d.id = "add">>),
                 text |-> "function Greeting({name}) {} function add(a,b) {}"]
          [] p = "/w/src/boot.ts" ->
                [fsPath |-> p, program |-> <<>>, text |-> "createRoot(el).render(<App />);"]
          [] p = "/w/src/index.tsx" ->
                [fsPath |-> p, program |-> <<>>, text |-> "import App from './App';"]
          [] OTHER -> [fsPath |-> p]]

\* What buildDependencyMap resolves for a file when every file is present.
ImportTable ==
    [p \in AnalyzePaths |->
        IF p = "/w/src/index.tsx"
        THEN <<[targetFile |-> "/w/src/App.tsx", importedItems |-> <<"App">>],
               [targetFile |-> "/w/src/styles.css", importedItems |-> <<>>]>>
        ELSE IF p = "/w/src/App.tsx"
        THEN <<[targetFile |-> "/w/src/boot.ts", importedItems |-> <<"start">>]>>
        ELSE <<>>]

\* path.extname
extname(p) ==
    LET dot == lastIndexOf(basename(p), ".")
    IN  IF dot <= 1 THEN "" ELSE SubSeq(basename(p), dot, Len(basename(p)))

\* findFiles('**/*.{exts}', '**/node_modules/**') on the listing
findFilesByExt(lst, exts) ==
    LET found == SelectSeq(lst, LAMBDA f : extname(f.path) \in exts
                                           /\ ~includes(f.path, "/node_modules/"))
    IN  [i \in 1..Len(found) |-> found[i].path]

\* Step 2: [...javaFiles, ...reactFiles, ...pythonFiles]
relevantFiles(lst) ==
    findFilesByExt(lst, {".java"})
        \o findFilesByExt(lst, {".tsx", ".jsx", ".ts", ".js"})
        \o findFilesByExt(lst, {".py"})

\* Step 3: the dependencies of a file: the imports that resolve to a file of the folder.
dependenciesOf(files, fsPath) ==
    SelectSeq(ImportTable[fsPath], LAMBDA dep : dep.targetFile \in files)

\* Step 3: dependencyMap.set(file.fsPath, targets), for every file listed.
dependencyMapOf(files, relevant) ==
    [p \in Range(relevant) |->
        [k \in 1..Len(dependenciesOf(files, p)) |-> dependenciesOf(files, p)[k].targetFile]]

\* dependencyMap.get(filePath) || []
dependencyTargets(dependencyMap, filePath) ==
    IF filePath \in DOMAIN dependencyMap THEN dependencyMap[filePath] ELSE <<>>

stepThreeEdges(files, relevant) ==
    flatten([k \in 1..Len(relevant) |->
                importEdges(relevant[k], dependenciesOf(files, relevant[k]))], 1)

\* The arguments 0, 5 of collectDependencyTree and the slice(0, 3) of step 4.
TreeDepth == 5
TopRoots == 3

\* collectDependencyTree; collected is the Set, in insertion order.
RECURSIVE collectDependencyTree(_, _, _, _, _)
RECURSIVE collectEach(_, _, _, _, _, _)
collectDependencyTree(filePath, dependencyMap, collected, depth, maxDepth) ==
    IF depth >= maxDepth \/ filePath \in Range(collected) THEN collected
    ELSE collectEach(dependencyMap, dependencyTargets(dependencyMap, filePath), 1,
                     Append(collected, filePath), depth + 1, maxDepth)

collectEach(dependencyMap, deps, k, collected, depth, maxDepth) ==
    IF k > Len(deps) THEN collected
    ELSE collectEach(dependencyMap, deps, k + 1,
                     collectDependencyTree(deps[k], dependencyMap, collected, depth, maxDepth),
                     depth, maxDepth)

RECURSIVE collectRoots(_, _, _, _)
collectRoots(dependencyMap, eps, k, collected) ==
    IF k > Len(eps) THEN collected
    ELSE collectRoots(dependencyMap, eps, k + 1,
             collectDependencyTree(eps[k].filePath, dependencyMap, collected, 0, TreeDepth))

\* Step 4
selectFilesToParse(dependencyMap, relevant, eps) ==
    IF Len(eps) > 0
    THEN collectRoots(dependencyMap, take(eps, TopRoots), 1, <<>>)
    ELSE uniqueInOrder(relevant, 1, <<>>)

\* Step 5, the parser a file goes to by its extension; "none" skips the file.
parserOf(filePath) ==
    LET ext == extname(filePath)
    IN  IF ext = ".java" THEN "java"
        ELSE IF ext \in {".tsx", ".jsx", ".ts", ".js"} THEN "react"
        ELSE IF ext = ".py" THEN "python"
        ELSE "none"

parseWith(parser, doc, isEntryPointFile) ==
    IF parser = "java" THEN javaParse(doc, isEntryPointFile)
    ELSE IF parser = "react" THEN reactParse(doc, isEntryPointFile)
    ELSE pythonParse(doc, isEntryPointFile)

\* parseWith on the documents of the folder, by path, isEntryPointFile,
\* whether the document can be opened and whether the try throws.
ParseTable ==
    [p \in {q \in AnalyzePaths : parserOf(q) # "none"} |->
        [isEntryPoint \in BOOLEAN |->
            [readable \in BOOLEAN |->
                [throwsInside \in BOOLEAN |->
                    parseWith(parserOf(p),
                              DocumentTable[p] @@ [readable |-> readable,
                                                   throwsInside |-> throwsInside],
                              isEntryPoint)]]]]

\* entryPointPaths.has(filePath)
isEntryPointFile(eps, filePath) == \E k \in 1..Len(eps) : eps[k].filePath = filePath

\* The mutant flags every node of the file of an entry point.
RECURSIVE markAllEntryNodes(_, _, _)
markAllEntryNodes(nodes, eps, k) ==
    IF k > Len(eps) THEN nodes
    ELSE markAllEntryNodes(
             [i \in 1..Len(nodes) |->
                 IF nodes[i].filePath = eps[k].filePath
                 THEN [nodes[i] EXCEPT !.isEntryPoint = TRUE,
                                       !.isPrimaryEntry = @ \/ eps[k].isPrimaryEntry]
                 ELSE nodes[i]],
             eps, k + 1)

\* Step 6: for each entry point, the first node of its file is flagged.
RECURSIVE markEntryNodes(_, _, _)
markEntryNodes(nodes, eps, k) ==
    IF k > Len(eps) THEN nodes
    ELSE LET hits == {i \in 1..Len(nodes) : nodes[i].filePath = eps[k].filePath}
             entryNode == firstIndex(hits)
         IN  markEntryNodes(
                 IF hits = {} THEN nodes
                 ELSE [nodes EXCEPT ![entryNode] =
                          [@ EXCEPT !.isEntryPoint = TRUE,
                                    !.isPrimaryEntry = @ \/ eps[k].isPrimaryEntry]],
                 eps, k + 1)

\* Step 7: the roots handed to buildFromEntryPoints.
rootFiles(eps) ==
    LET primary == {k \in 1..Len(eps) : eps[k].isPrimaryEntry}
    IN  IF primary # {} THEN <<eps[firstIndex(primary)].filePath>>
        ELSE [k \in 1..Len(eps) |-> eps[k].filePath]

InitAnalyze ==
    /\ phase = "workspace"
    /\ workspace \in SUBSET Range(AnalyzeFiles)
    /\ listing = SelectSeq(AnalyzeFiles, LAMBDA f : f \in workspace)
    /\ uniqueEntryPoints = <<>> /\ entryPoints = <<>>
    /\ filesToParse = <<>> /\ parseOutcomes = <<>> /\ errors = <<>>
    /\ document = NoDocument /\ result = NoResult
    /\ allNodes = <<>> /\ allEdges = <<>> /\ graph = NoGraph
    /\ query = NoQuery /\ answer = <<>>
    /\ disk = {} /\ importing = NoImports /\ dependencies = <<>> /\ settled = "pending"
    /\ frames = <<>> /\ visited = {} /\ nodesToInclude = {}
    /\ edgesToInclude = <<>> /\ expansions = <<>>

\* Steps 1 to 4: the entry points, the import edges and the files to parse.
\* The detector sees the files of the folder its patterns can match.
SelectFiles ==
    /\ phase = "workspace"
    /\ \E ranked \in {rankedEntryPoints(SelectSeq(EntryFiles, LAMBDA f : f \in workspace))} :
       \E eps \in {detectEntryPoints(ranked)} :
       \E files \in {{f.path : f \in workspace}}, relevant \in {relevantFiles(listing)} :
           /\ uniqueEntryPoints' = ranked
           /\ entryPoints' = eps
           /\ allEdges' = stepThreeEdges(files, relevant)
           /\ filesToParse' = selectFilesToParse(dependencyMapOf(files, relevant), relevant, eps)
    /\ phase' = "parsing"
    /\ UNCHANGED <<workspace, listing, parseOutcomes, errors, parserVars,
                   allNodes, graph, query, answer, travVars, importVars>>

\* Step 5, one file: the file is skipped, or its parser settles and the
\* lists are pushed, or the parser rejects and the error is recorded.
ParseFile ==
    /\ phase = "parsing"
    /\ Len(parseOutcomes) < Len(filesToParse)
    /\ LET filePath == filesToParse[Len(parseOutcomes) + 1]
           parser   == parserOf(filePath)
       IN  IF parser = "none"
           THEN /\ parseOutcomes' = Append(parseOutcomes, "skipped")
                /\ UNCHANGED <<parserVars, allNodes, allEdges, errors>>
           ELSE \E readable \in BOOLEAN, throwsInside \in BOOLEAN :
                   /\ ~readable => ~throwsInside
                   /\ \E doc \in {DocumentTable[filePath]
                                     @@ [readable |-> readable, throwsInside |-> throwsInside]},
                         settles \in {ParseTable[filePath][isEntryPointFile(entryPoints, filePath)]
                                                [readable][throwsInside]} :
                          /\ document' = doc
                          /\ result' = settles
                          /\ IF settles.status = "rejected"
                             THEN /\ errors' = Append(errors, [file |-> filePath,
                                                               type |-> "parse-error"])
                                  /\ parseOutcomes' = Append(parseOutcomes, "rejected")
                                  /\ UNCHANGED <<allNodes, allEdges>>
                             ELSE /\ allNodes' = allNodes \o settles.nodes
                                  /\ allEdges' = allEdges \o settles.edges
                                  /\ parseOutcomes' =
                                         Append(parseOutcomes,
                                                IF throwsInside THEN "caught" ELSE "parsed")
                                  /\ UNCHANGED errors
    /\ UNCHANGED <<phase, filesToParse, graph, query, answer,
                   travVars, entryVars, importVars>>

\* Steps 6 and 7: the entry nodes are flagged and the graph is built.
MarkAndBuild ==
    /\ phase = "parsing"
    /\ Len(parseOutcomes) = Len(filesToParse)
    /\ allNodes' = markEntryNodes(allNodes, entryPoints, 1)
    /\ graph' = buildFromEntryPoints(markEntryNodes(allNodes, entryPoints, 1), allEdges,
                                     rootFiles(entryPoints))
    /\ phase' = "analyzed"
    /\ UNCHANGED <<allEdges, filesToParse, parseOutcomes, errors, parserVars,
                   query, answer, travVars, entryVars, importVars>>

NextAnalyze == SelectFiles \/ ParseFile \/ MarkAndBuild

SpecAnalyze == InitAnalyze /\ [][NextAnalyze]_vars

\* What the parser of file i of filesToParse gives when nothing fails.
wholeResult(i) ==
    ParseTable[filesToParse[i]][isEntryPointFile(entryPoints, filesToParse[i])][TRUE][FALSE]

graphNodeIds == {graph.nodes[j].id : j \in 1..Len(graph.nodes)}
graphEdgeKeys == {edgeKey(graph.edges[j]) : j \in 1..Len(graph.edges)}

failedFiles ==
    {i \in 1..Len(parseOutcomes) : parseOutcomes[i] \in {"caught", "rejected"}}
parsedFiles == {i \in 1..Len(parseOutcomes) : parseOutcomes[i] = "parsed"}

\* C12: a parse failure does not stop analyze: every file selected is gone
\* through, the returned graph holds every node (by key) and every parser
\* edge (by from, to and type) of the files that parsed, and a file whose
\* parse failed contributes no node and no parser edge at all.
C12_ParseFailureNeverAborts ==
    phase = "analyzed" =>
        /\ Len(parseOutcomes) = Len(filesToParse)
        /\ \A i \in parsedFiles :
              /\ \A k \in 1..Len(wholeResult(i).nodes) :
                    wholeResult(i).nodes[k].id \in graphNodeIds
              /\ \A k \in 1..Len(wholeResult(i).edges) :
                    edgeKey(wholeResult(i).edges[k]) \in graphEdgeKeys
        /\ \A i \in failedFiles :
              /\ \A j \in 1..Len(graph.nodes) : graph.nodes[j].filePath # filesToParse[i]
              /\ \A k \in 1..Len(wholeResult(i).edges) :
                    edgeKey(wholeResult(i).edges[k]) \notin graphEdgeKeys

C12_Witness ==
    /\ phase = "analyzed"
    /\ \E i \in failedFiles : parseOutcomes[i] = "caught" /\ Len(wholeResult(i).nodes) > 1
    /\ \E i \in failedFiles : parseOutcomes[i] = "rejected"
    /\ \E i \in parsedFiles : Len(wholeResult(i).nodes) > 1 /\ Len(wholeResult(i).edges) > 1

\* C13: every file selected for parsing whose parser failed internally has
\* an entry in errors with its path and the type parse-error.
C13_InternalFailureRecorded ==
    phase = "analyzed" =>
        \A i \in 1..Len(parseOutcomes) :
            parseOutcomes[i] = "caught" =>
                \E k \in 1..Len(errors) :
                    errors[k].file = filesToParse[i] /\ errors[k].type = "parse-error"

\* The failures that do reach errors: a document that could not be opened.
C13_RejectionRecorded ==
    phase = "analyzed" =>
        \A i \in 1..Len(parseOutcomes) :
            parseOutcomes[i] = "rejected" <=>
                \E k \in 1..Len(errors) :
                    errors[k].file = filesToParse[i] /\ errors[k].type = "parse-error"

primaryNodes == {j \in 1..Len(graph.nodes) : graph.nodes[j].isPrimaryEntry}

\* C17: in the graph analyze returns at most one node has isPrimaryEntry,
\* and that node belongs to the file of the entry point that
\* detectEntryPoints marked primary.
C17_AtMostOnePrimaryNode ==
    phase = "analyzed" =>
        /\ Cardinality(primaryNodes) <= 1
        /\ \A j \in primaryNodes :
              \E k \in 1..Len(entryPoints) :
                  entryPoints[k].isPrimaryEntry
                      /\ entryPoints[k].filePath = graph.nodes[j].filePath

C17_Witness ==
    /\ phase = "analyzed"
    /\ Cardinality(primaryNodes) = 1
    /\ \E j \in primaryNodes :
          Cardinality({i \in 1..Len(graph.nodes) :
                          graph.nodes[i].filePath = graph.nodes[j].filePath}) > 1
    /\ Len(entryPoints) > 1

\* C18: in the graph analyze returns a node has isEntryPoint exactly when
\* its file is one of the entry points detectEntryPoints returned.
C18_EntryFlagIffEntryFile ==
    phase = "analyzed" =>
        \A j \in 1..Len(graph.nodes) :
            graph.nodes[j].isEntryPoint <=>
                isEntryPointFile(entryPoints, graph.nodes[j].filePath)

\* The place of a language name in ascending string order.
languageRank(language) ==
    IF language = "java" THEN 1
    ELSE IF language = "javascript" THEN 2
    ELSE IF language = "python" THEN 3
    ELSE 4

\* C19: in the metadata of buildFromEntryPoints, languages holds each
\* language of the deduplicated nodes exactly once, in sorted order whatever
\* the order of the input nodes; totalFiles is the number of distinct node
\* file paths and entryPoints is the supplied list.
C19_MetadataLanguagesSorted ==
    phase = "built" =>
        LET languages == graph.metadata.languages
        IN  /\ Range(languages) = {graph.nodes[i].language : i \in 1..Len(graph.nodes)}
            /\ \A i, j \in 1..Len(languages) : i # j => languages[i] # languages[j]
            /\ \A i, j \in 1..Len(languages) :
                  i < j => languageRank(languages[i]) < languageRank(languages[j])
            /\ graph.metadata.totalFiles =
                  Cardinality({graph.nodes[i].filePath : i \in 1..Len(graph.nodes)})
            /\ buildFromEntryPoints(allNodes, allEdges, BuildEntryFiles).metadata.entryPoints
                  = BuildEntryFiles

\* The same without the order of languages, which the builder satisfies.
C19_MetadataWithoutOrder ==
    phase = "built" =>
        LET languages == graph.metadata.languages
        IN  /\ Range(languages) = {graph.nodes[i].language : i \in 1..Len(graph.nodes)}
            /\ \A i, j \in 1..Len(languages) : i # j => languages[i] # languages[j]
            /\ graph.metadata.totalFiles =
                  Cardinality({graph.nodes[i].filePath : i \in 1..Len(graph.nodes)})
            /\ buildFromEntryPoints(allNodes, allEdges, BuildEntryFiles).metadata.entryPoints
                  = BuildEntryFiles

(***************************************************************************)
(* The contains edges of the Java parser.                                  *)
(***************************************************************************)
nodeIdsOfType(type) == {nodesOfType(type)[i].id : i \in 1..Len(nodesOfType(type))}

\* C21: every contains edge goes from the id of a class node to the id of a
\* method node of the result, and the contains edges of a result have
\* pairwise different (from, to) pairs.
C21_ContainsEdgesJoinKeys ==
    (phase = "parsed" /\ result.status = "fulfilled") =>
        /\ \A i \in 1..Len(edgesOfType("contains")) :
              /\ edgesOfType("contains")[i].from \in nodeIdsOfType("class")
              /\ edgesOfType("contains")[i].to \in nodeIdsOfType("method")
        /\ \A i, j \in 1..Len(edgesOfType("contains")) :
              i # j => <<edgesOfType("contains")[i].from, edgesOfType("contains")[i].to>>
                         # <<edgesOfType("contains")[j].from, edgesOfType("contains")[j].to>>

(***************************************************************************)
(* Parsing one Python file: a class Job declared at indentation 0 or 4     *)
(* with up to MaxPyMembers members, each written as the lines below        *)
(* relative to the class, or one of the fixed files.                       *)
(***************************************************************************)
MaxPyMembers == 2

PyMembers == {
    <<"    def run(self):", "        pass">>,
    <<"    def _helper(self):", "        pass">>,
    <<"    def __secret(self):", "        pass">>,
    <<"    def __init__(self):", "        pass">>,
    <<"    def outer(self):", "        def inner():", "            pass", "        return inner">>,
    <<"    @staticmethod", "    def make():", "        pass">>,
    <<"    async def fetch(self):", "        pass">> }

PyMemberLists == UNION {[1..n -> PyMembers] : n \in 0..MaxPyMembers}

ClassIndents == {0, 4}

pad(k) == IF k = 0 THEN "" ELSE "    "

indented(lines, k) == [i \in 1..Len(lines) |-> pad(k) \o lines[i]]

pythonClassFile(members, k) ==
    <<"import os">>
        \o (IF k = 0 THEN <<>> ELSE <<"if os.name:">>)
        \o indented(<<"class Job(Base):">> \o flatten(members, 1), k)

FixedPythonFiles == {
    <<"# nothing declared">>,
    <<"def main():", "    pass", "if __name__ == '__main__':", "    main()">> }

PythonFiles ==
    {pythonClassFile(members, k) : members \in PyMemberLists, k \in ClassIndents}
        \cup FixedPythonFiles

PythonPaths == {"/w/app/job.py"}

(***************************************************************************)
(* Step 5 of WorkspaceAnalyzer.analyze on one file: the file goes to the   *)
(* parser of its extension, flagged as an entry point when the detected    *)
(* entry points hold its path.                                             *)
(***************************************************************************)
ParseDocuments ==
    {JavaDocument(fsPath, lines, TRUE, FALSE) : fsPath \in JavaPaths, lines \in JavaFiles}
        \cup {JavaDocument(fsPath, lines, TRUE, FALSE) :
                 fsPath \in PythonPaths, lines \in PythonFiles}
        \cup {ReactDocument(fsPath, decls, trailer, TRUE, FALSE) :
                 fsPath \in ReactPaths, decls \in Programs, trailer \in Trailers}

InitParse ==
    /\ phase = "document"
    /\ \E doc \in ParseDocuments, readable \in BOOLEAN, throwsInside \in BOOLEAN :
          /\ ~readable => ~throwsInside
          /\ document = [doc EXCEPT !.readable = readable, !.throwsInside = throwsInside]
          /\ entryPoints \in {<<>>, <<[filePath |-> doc.fsPath, type |-> "main", score |-> 10,
                                       isPrimaryEntry |-> TRUE]>>}
    /\ result = NoResult
    /\ filesToParse = <<>> /\ parseOutcomes = <<>> /\ errors = <<>>
    /\ allNodes = <<>> /\ allEdges = <<>> /\ graph = NoGraph
    /\ QuietElsewhere

\* const isEntryPointFile = entryPointPaths.has(filePath); await parser.parse(fileUri, isEntryPointFile)
ParseDocument ==
    /\ phase = "document"
    /\ result' = parseWith(parserOf(document.fsPath), document,
                           isEntryPointFile(entryPoints, document.fsPath))
    /\ phase' = "parsed"
    /\ UNCHANGED <<document, filesToParse, parseOutcomes, errors, graphVars,
                   travVars, entryVars, importVars>>

NextParse == ParseDocument

SpecParse == InitParse /\ [][NextParse]_vars

flagged == isEntryPointFile(entryPoints, document.fsPath)

bootstrap == parserOf(document.fsPath) = "react" /\ isBootstrapFile(document.text)

parsedWell == phase = "parsed" /\ result.status = "fulfilled" /\ ~document.throwsInside

\* C22: a parser emits a module node exactly when it found no other node in
\* the file and the file is flagged as an entry point (for TS/JS also when
\* its text holds a bootstrap call); the module node is the only node of its
\* file, and a parsed entry-point file contributes at least one node.
C22_ModuleNodeIffEmptyEntry ==
    parsedWell =>
        /\ nodesOfType("module") # <<>> =>
              /\ Len(result.nodes) = 1
              /\ flagged \/ bootstrap
        /\ result.nodes = <<>> => ~(flagged \/ bootstrap)

C22_Witness ==
    /\ parsedWell
    /\ parserOf(document.fsPath) = "java"
    /\ flagged
    /\ Len(nodesOfType("module")) = 1
    /\ nodesOfType("module")[1].id = "/w/src/Foo.java:module:Foo"

\* The visibility the naming convention gives a Python method name.
conventionVisibility(name) ==
    IF startsWith(name, "__") /\ ~endsWith(name, "__") THEN "private"
    ELSE IF startsWith(name, "_") /\ ~startsWith(name, "__") THEN "protected"
    ELSE "public"

\* C23: every Python method node carries the visibility of the naming
\* convention: private for a leading double underscore without a trailing
\* one, protected for a single leading underscore, public otherwise, so
\* public for __init__.
C23_VisibilityByConvention ==
    (parsedWell /\ parserOf(document.fsPath) = "python") =>
        \A i \in 1..Len(nodesOfType("method")) :
            nodesOfType("method")[i].visibility
                = conventionVisibility(nodesOfType("method")[i].label)

\* The part of C23 the parser satisfies: the names that do not both start
\* and end with a double underscore.
C23_VisibilityOutsideDunder ==
    (parsedWell /\ parserOf(document.fsPath) = "python") =>
        \A i \in 1..Len(nodesOfType("method")) :
            ~(startsWith(nodesOfType("method")[i].label, "__")
                /\ endsWith(nodesOfType("method")[i].label, "__")) =>
                nodesOfType("method")[i].visibility
                    = conventionVisibility(nodesOfType("method")[i].label)

\* The indentation of the line a node of the parsed document starts on.
indentOfNode(node) == lineIndent(document.lines[node.startLine])

\* C24: a def line is recorded as a method of a Python class declared at
\* indentation k only when its own indentation is exactly k + 4, so a def
\* nested inside a method body yields no method node.
C24_MethodsAtClassIndentPlusFour ==
    (parsedWell /\ parserOf(document.fsPath) = "python") =>
        \A i \in 1..Len(nodesOfType("method")), c \in 1..Len(nodesOfType("class")) :
            indentOfNode(nodesOfType("method")[i])
                = indentOfNode(nodesOfType("class")[c]) + 4

\* A declaration that declares a function: a function declaration, or a
\* variable bound to an arrow function or a function expression.
declaresFunction(decl) ==
    \/ decl.type = "FunctionDeclaration"
    \/ /\ decl.type = "VariableDeclarator"
       /\ decl.init.type \in {"ArrowFunctionExpression", "FunctionExpression"}

\* The places of the nodes a parse made for the declaration at a line.
nodesForLine(line) ==
    {i \in 1..Len(result.nodes) :
        result.nodes[i].startLine = line /\ result.nodes[i].type # "module"}

\* C25: every function declaration and every arrow function or function
\* expression bound to a variable yields exactly one node, a component when
\* its body returns a JSX element and a function otherwise.
C25_EveryFunctionYieldsOneNode ==
    (phase = "parsed" /\ result.status = "fulfilled" /\ ~document.throwsInside) =>
        \A d \in 1..Len(document.program) :
            declaresFunction(document.program[d]) =>
                /\ Cardinality(nodesForLine(document.program[d].line)) = 1
                /\ \A i \in nodesForLine(document.program[d].line) :
                      /\ result.nodes[i].label = document.program[d].id
                      /\ result.nodes[i].type =
                            IF isReactComponent(declaredFunction(document.program[d]))
                            THEN "component" ELSE "function"

\* The part of C25 the parser satisfies: function declarations, and the
\* variables bound to a function that returns a JSX element.
C25_DeclarationsAndComponentsYieldOneNode ==
    (phase = "parsed" /\ result.status = "fulfilled" /\ ~document.throwsInside) =>
        \A d \in 1..Len(document.program) :
            (/\ declaresFunction(document.program[d])
             /\ \/ document.program[d].type = "FunctionDeclaration"
                \/ isReactComponent(declaredFunction(document.program[d]))) =>
                /\ Cardinality(nodesForLine(document.program[d].line)) = 1
                /\ \A i \in nodesForLine(document.program[d].line) :
                      result.nodes[i].type =
                            IF isReactComponent(declaredFunction(document.program[d]))
                            THEN "component" ELSE "function"

\* C26: whenever no candidate matches the TS/JS primary patterns and some
\* Java file of the workspace declares public static void main(String[] args),
\* the candidate marked primary is a Java file that declares it, whatever the
\* names of the other candidates and whichever rule added the file first.
C26_JavaMainFileIsPrimary ==
    (/\ phase = "detected"
     /\ ~\E ep \in candidates : matchesReactPattern(ep)
     /\ javaMainFiles # {}) =>
        /\ entryPoints # <<>>
        /\ \A i \in 1..Len(entryPoints) :
              entryPoints[i].isPrimaryEntry => entryPoints[i].filePath \in javaMainFiles
        /\ \E i \in 1..Len(entryPoints) : entryPoints[i].isPrimaryEntry

\* The part of C26 the detector satisfies: when the scan for main methods is
\* the rule that added some Java file first, so that its candidate has the
\* type main, the primary candidate is a Java file declaring a main method.
C26_JavaMainCandidateIsPrimary ==
    (/\ phase = "detected"
     /\ ~\E ep \in candidates : matchesReactPattern(ep)
     /\ \E ep \in candidates : isJavaMain(ep) /\ ep.filePath \in javaMainFiles
     /\ \A ep \in candidates : isJavaMain(ep) => ep.filePath \in javaMainFiles) =>
        /\ entryPoints # <<>>
        /\ entryPoints[1].isPrimaryEntry
        /\ entryPoints[1].filePath \in javaMainFiles

\* The ids at most d forward edges of g away from root.
RECURSIVE withinDistance(_, _, _)
withinDistance(g, root, d) ==
    IF d = 0 THEN {root}
    ELSE LET nearer == withinDistance(g, root, d - 1)
         IN  nearer \cup {g.edges[i].to : i \in {j \in 1..Len(g.edges) : g.edges[j].from \in nearer}}

edgesJoinNodeIds(g) ==
    \A i \in 1..Len(g.edges) : g.edges[i].from \in NodeIdsOf(g) /\ g.edges[i].to \in NodeIdsOf(g)

\* C27: on a graph whose edges join node ids, the node ids filterByDepth
\* visits from a root are exactly those whose shortest forward distance from
\* the root is at most maxDepth, whatever the order of graph.edges.
C27_VisitedAreWithinShortestDistance ==
    (IsFilterAnswer /\ edgesJoinNodeIds(graph) /\ query.id \in NodeIdsOf(graph)) =>
        NodeIdsOf(answer) = withinDistance(graph, query.id, query.maxDepth)

\* The part of C27 the traversal satisfies: it visits no id farther than
\* maxDepth from the root, and it visits the root.
C27_VisitedAreNoFartherThanMaxDepth ==
    (IsFilterAnswer /\ edgesJoinNodeIds(graph) /\ query.id \in NodeIdsOf(graph)) =>
        /\ NodeIdsOf(answer) \subseteq withinDistance(graph, query.id, query.maxDepth)
        /\ query.id \in NodeIdsOf(answer)

\* C28: in the graph filterByDepth returns, metadata.totalNodes equals the
\* length of the returned node list, also for a root id or edge targets that
\* are ids of no node of the graph.
C28_TotalNodesIsNodeCount ==
    IsFilterAnswer => answer.metadata.totalNodes = Len(answer.nodes)

\* The part of C28 the builder satisfies: the graph build returns, and the
\* answer of filterByDepth when the root and every edge join node ids.
C28_TotalNodesOnNodeIds ==
    /\ phase = "built" => graph.metadata.totalNodes = Len(graph.nodes)
    /\ (IsFilterAnswer /\ edgesJoinNodeIds(graph) /\ query.id \in NodeIdsOf(graph)) =>
           answer.metadata.totalNodes = Len(answer.nodes)


(***************************************************************************)
(* Steps 3 and 4 of analyze on a folder of TypeScript files: the           *)
(* dependency map is filled file by file, then the files to parse are      *)
(* collected from the entry points.                                        *)
(***************************************************************************)
CollectFiles ==
    <<"/w/src/index.ts", "/w/src/app.ts", "/w/src/routes.ts",
      "/w/src/views.ts", "/w/src/store.ts", "/w/src/util.ts">>

\* What buildDependencyMap may resolve for each file, in the order of the
\* file's import statements: a chain index-app-routes-views-store-util, a
\* direct import of store by index, and imports back to index.
ImportChoices ==
    [p \in Range(CollectFiles) |->
        CASE p = "/w/src/index.ts" ->
                {<<>>, <<"/w/src/app.ts">>, <<"/w/src/app.ts", "/w/src/store.ts">>,
                 <<"/w/src/store.ts", "/w/src/app.ts">>}
          [] p = "/w/src/app.ts" -> {<<>>, <<"/w/src/routes.ts">>}
          [] p = "/w/src/routes.ts" -> {<<"/w/src/views.ts">>, <<"/w/src/views.ts", "/w/src/index.ts">>}
          [] p = "/w/src/views.ts" -> {<<>>, <<"/w/src/store.ts">>}
          [] p = "/w/src/store.ts" -> {<<>>, <<"/w/src/util.ts">>, <<"/w/src/util.ts", "/w/src/index.ts">>}
          [] OTHER -> {<<>>, <<"/w/src/index.ts">>}]

\* The ranked entry points the detector may hand over; the last list has a
\* fourth entry, which step 4 does not start from.
CollectEntryLists ==
    {[k \in 1..Len(paths) |-> EntryPoint(paths[k], "index", 10)] :
        paths \in {<<>>,
                   <<"/w/src/index.ts">>,
                   <<"/w/src/index.ts", "/w/src/store.ts">>,
                   <<"/w/src/store.ts", "/w/src/index.ts">>,
                   <<"/w/src/app.ts", "/w/src/routes.ts", "/w/src/views.ts", "/w/src/util.ts">>}}

InitCollect ==
    /\ phase = "mapping"
    /\ entryPoints \in CollectEntryLists
    /\ document = NoDocument /\ result = NoResult
    /\ filesToParse = <<>> /\ parseOutcomes = <<>> /\ errors = <<>>
    /\ allNodes = <<>> /\ allEdges = <<>> /\ graph = NoGraph
    /\ QuietElsewhere

\* Step 3, one file: dependencyMap.set(file.fsPath, targets) and one import
\* edge per dependency; dependencies holds the map.
SetDependencies ==
    /\ phase = "mapping"
    /\ Cardinality(DOMAIN dependencies) < Len(CollectFiles)
    /\ \E file \in {CollectFiles[Cardinality(DOMAIN dependencies) + 1]} :
       \E targets \in ImportChoices[file] :
          /\ dependencies' = [p \in DOMAIN dependencies \cup {file} |->
                                 IF p = file THEN targets ELSE dependencies[p]]
          /\ allEdges' = allEdges \o
                 importEdges(file, [k \in 1..Len(targets) |->
                                       [targetFile |-> targets[k], importedItems |-> <<>>]])
    /\ UNCHANGED <<phase, analyzeVars, allNodes, graph, query, answer, travVars, entryVars,
                   disk, importing, settled>>

\* Step 4
CollectDependencyTrees ==
    /\ phase = "mapping"
    /\ Cardinality(DOMAIN dependencies) = Len(CollectFiles)
    /\ filesToParse' = selectFilesToParse(dependencies, CollectFiles, entryPoints)
    /\ phase' = "selected"
    /\ UNCHANGED <<parseOutcomes, errors, parserVars, graphVars, travVars, entryVars, importVars>>

NextCollect == SetDependencies \/ CollectDependencyTrees

SpecCollect == InitCollect /\ [][NextCollect]_vars

\* The files at most d resolved-import edges away from one of the roots.
RECURSIVE filesWithin(_, _, _)
filesWithin(dependencyMap, roots, d) ==
    IF d = 0 THEN roots
    ELSE LET nearer == filesWithin(dependencyMap, roots, d - 1)
         IN  nearer \cup UNION {Range(dependencyTargets(dependencyMap, p)) : p \in nearer}

\* The files step 4 starts from: the first three ranked entry points.
collectRootFiles == {take(entryPoints, TopRoots)[k].filePath : k \in 1..Len(take(entryPoints, TopRoots))}

\* C29: when an entry point is detected, the files selected for parsing are
\* exactly those reachable from one of the first three ranked entry points
\* through at most 4 resolved-import edges, whatever the order in which the
\* entry points and the imports of a file are gone through.
C29_SelectedAreWithinFourImports ==
    (phase = "selected" /\ entryPoints # <<>>) =>
        Range(filesToParse) = filesWithin(dependencies, collectRootFiles, TreeDepth - 1)

\* The part of C29 the collection satisfies: every root is selected, and no
\* selected file is farther than 4 resolved imports from the roots.
C29_SelectedAreNoFartherThanFourImports ==
    (phase = "selected" /\ entryPoints # <<>>) =>
        /\ collectRootFiles \subseteq Range(filesToParse)
        /\ Range(filesToParse) \subseteq filesWithin(dependencies, collectRootFiles, TreeDepth - 1)


(***************************************************************************)
(* CodeFlow: the visible node instances of the graph view.  graph holds    *)
(* the nodes and edges props, query the expandedNodes prop, answer the     *)
(* result of the visibleInstances memo and frames the calls of             *)
(* addChildInstances that have not returned.                               *)
(***************************************************************************)
\* The calls the stack of the webview has room for; one more throws a
\* RangeError out of the memo.
MaxStack == 4

FlowNode(id, filePath, isEntryPoint, isPrimaryEntry) ==
    [id |-> id, filePath |-> filePath, label |-> basename(filePath),
     isEntryPoint |-> isEntryPoint, isPrimaryEntry |-> isPrimaryEntry]

IndexId == "/w/src/index.ts:module:index"
AppId == "/w/src/app.ts:class:App"
UtilId == "/w/src/util.ts:function:twice:1"

\* The nodes prop: nothing, a graph with a primary entry, and the same graph
\* with no entry point marked.
FlowNodeLists ==
    {<<>>,
     <<FlowNode(AppId, "/w/src/app.ts", FALSE, FALSE),
       FlowNode(IndexId, "/w/src/index.ts", TRUE, TRUE),
       FlowNode(UtilId, "/w/src/util.ts", FALSE, FALSE)>>,
     <<FlowNode(IndexId, "/w/src/index.ts", FALSE, FALSE),
       FlowNode(AppId, "/w/src/app.ts", FALSE, FALSE),
       FlowNode(UtilId, "/w/src/util.ts", FALSE, FALSE)>>}

\* The edges prop is a selection of these: imports between the files, an
\* import back to the entry file, the contains edge a parser makes from a
\* file path to itself, and an import of a file that has no node.
FlowEdges ==
    <<[from |-> "/w/src/index.ts", to |-> "/w/src/app.ts", type |-> "imports"],
      [from |-> "/w/src/index.ts", to |-> "/w/src/util.ts", type |-> "imports"],
      [from |-> "/w/src/app.ts", to |-> "/w/src/util.ts", type |-> "imports"],
      [from |-> "/w/src/app.ts", to |-> "/w/src/index.ts", type |-> "imports"],
      [from |-> "/w/src/app.ts", to |-> "/w/src/app.ts", type |-> "contains"],
      [from |-> "/w/src/index.ts", to |-> "/w/src/styles.css", type |-> "imports"]>>

FlowEdgeLists ==
    {SelectSeq(FlowEdges, LAMBDA e : e \in chosen) : chosen \in SUBSET Range(FlowEdges)}

NoInstances == [visibleInstances |-> <<>>, instanceEdges |-> <<>>]

\* nodes.find(n => n.id === nodeId), for an id that some node has
nodeById(nodes, nodeId) ==
    nodes[firstIndex({i \in 1..Len(nodes) : nodes[i].id = nodeId})]

\* matchingEdges.map(e => nodes.find(n => n.filePath === e.to)?.id ?? null)
\*               .filter(id => id !== null)
targetIds(nodes, matchingEdges) ==
    LET resolved == SelectSeq(matchingEdges,
                              LAMBDA e : \E i \in 1..Len(nodes) : nodes[i].filePath = e.to)
    IN  [k \in 1..Len(resolved) |->
            nodes[firstIndex({i \in 1..Len(nodes) : nodes[i].filePath = resolved[k].to})].id]

getChildNodes(nodes, edges, nodeId) ==
    IF ~\E i \in 1..Len(nodes) : nodes[i].id = nodeId THEN <<>>
    ELSE targetIds(nodes, SelectSeq(edges, LAMBDA e : e.from = nodeById(nodes, nodeId).filePath))

\* interface NodeInstance, without the reference to the node data
NodeInstance(originalId, instanceId, parentInstanceId) ==
    [originalId |-> originalId, instanceId |-> instanceId, parentInstanceId |-> parentInstanceId]

\* primaryEntry || nodes.find(n => n.isEntryPoint) || nodes[0]
rootNodeOf(nodes) ==
    IF \E i \in 1..Len(nodes) : nodes[i].isPrimaryEntry
    THEN nodes[firstIndex({i \in 1..Len(nodes) : nodes[i].isPrimaryEntry})]
    ELSE IF \E i \in 1..Len(nodes) : nodes[i].isEntryPoint
    THEN nodes[firstIndex({i \in 1..Len(nodes) : nodes[i].isEntryPoint})]
    ELSE nodes[1]

\* A call of addChildInstances: where it stands, and the children it goes through.
InstanceFrame(parentInstance) ==
    [parentInstance |-> parentInstance, pc |-> "enter", children |-> <<>>, i |-> 1]

InitFlow ==
    /\ phase = "loaded"
    /\ \E nodes \in FlowNodeLists, edges \in FlowEdgeLists :
          graph = [nodes |-> nodes, edges |-> edges, metadata |-> NoGraph.metadata]
    /\ query = [op |-> "visibleInstances", expandedNodes |-> {}]
    /\ answer = NoInstances
    /\ allNodes = <<>>
    /\ allEdges = <<>>
    /\ frames = <<>>
    /\ visited = {}
    /\ nodesToInclude = {}
    /\ edgesToInclude = <<>>
    /\ expansions = <<>>
    /\ EntryIdle

\* The memo up to the call addChildInstances(rootInstance)
ComputeVisibleInstances ==
    /\ phase = "loaded"
    /\ IF graph.nodes = <<>>
       THEN /\ answer' = NoInstances
            /\ frames' = <<>>
            /\ phase' = "shown"
       ELSE \E rootInstance \in {NodeInstance(rootNodeOf(graph.nodes).id,
                                              rootNodeOf(graph.nodes).id, "null")} :
               /\ answer' = [visibleInstances |-> <<rootInstance>>, instanceEdges |-> <<>>]
               /\ frames' = <<InstanceFrame(rootInstance)>>
               /\ phase' = "computing"
    /\ UNCHANGED <<allNodes, allEdges, graph, query,
                   visited, nodesToInclude, edgesToInclude, expansions, notTrav>>

\* addChildInstances: the guard and getChildNodes
AddChildInstancesEnter ==
    /\ phase = "computing"
    /\ frames # <<>>
    /\ Top.pc = "enter"
    /\ IF Top.parentInstance.originalId \notin query.expandedNodes
       THEN frames' = Pop
       ELSE frames' = [frames EXCEPT ![Len(frames)] =
                          [@ EXCEPT !.pc = "forEach",
                                    !.children = getChildNodes(graph.nodes, graph.edges,
                                                               Top.parentInstance.originalId)]]
    /\ UNCHANGED <<phase, allNodes, allEdges, graph, query, answer,
                   visited, nodesToInclude, edgesToInclude, expansions, notTrav>>

\* children.forEach: one child, up to the recursive call; the call throws
\* when the stack has no room for it.
AddChildInstancesForEach ==
    /\ phase = "computing"
    /\ frames # <<>>
    /\ Top.pc = "forEach"
    /\ IF Top.i > Len(Top.children)
       THEN /\ frames' = Pop
            /\ UNCHANGED <<phase, answer>>
       ELSE \E childInstance \in
                 {NodeInstance(Top.children[Top.i],
                               Top.children[Top.i] \o "@" \o Top.parentInstance.instanceId,
                               Top.parentInstance.instanceId)} :
               /\ answer' =
                     [visibleInstances |-> Append(answer.visibleInstances, childInstance),
                      instanceEdges |-> Append(answer.instanceEdges,
                          [sourceInstanceId |-> Top.parentInstance.instanceId,
                           targetInstanceId |-> childInstance.instanceId,
                           type |-> "imports"])]
               /\ IF Len(frames) >= MaxStack
                  THEN /\ phase' = "overflow"
                       /\ UNCHANGED frames
                  ELSE /\ frames' = Append([frames EXCEPT ![Len(frames)] = [@ EXCEPT !.i = @ + 1]],
                                           InstanceFrame(childInstance))
                       /\ UNCHANGED phase
    /\ UNCHANGED <<allNodes, allEdges, graph, query,
                   visited, nodesToInclude, edgesToInclude, expansions, notTrav>>

\* return { visibleInstances: instances, instanceEdges: instEdges }
ReturnInstances ==
    /\ phase = "computing"
    /\ frames = <<>>
    /\ phase' = "shown"
    /\ UNCHANGED <<allNodes, allEdges, graph, query, answer, travVars, notTrav>>

\* onClick of the +/- button, which an instance with children shows
ToggleExpanded ==
    /\ phase = "shown"
    /\ \E k \in 1..Len(answer.visibleInstances) :
        \E id \in {answer.visibleInstances[k].originalId} :
          /\ Len(getChildNodes(graph.nodes, graph.edges, id)) > 0
          /\ query' = [query EXCEPT !.expandedNodes =
                          IF id \in @ THEN @ \ {id} ELSE @ \cup {id}]
    /\ phase' = "loaded"
    /\ UNCHANGED <<allNodes, allEdges, graph, answer, travVars, notTrav>>

NextFlow ==
    \/ ComputeVisibleInstances
    \/ AddChildInstancesEnter
    \/ AddChildInstancesForEach
    \/ ReturnInstances
    \/ ToggleExpanded

SpecFlow == InitFlow /\ [][NextFlow]_vars

\* The memo runs synchronously to its return: no step of it is postponed for ever.
SpecFlowFair ==
    /\ SpecFlow
    /\ WF_vars(ComputeVisibleInstances)
    /\ WF_vars(AddChildInstancesEnter)
    /\ WF_vars(AddChildInstancesForEach)
    /\ WF_vars(ReturnInstances)

\* C30: the computation of the visible instances terminates for every graph
\* and every set of expanded nodes that toggling can reach, import cycles
\* between expanded files and edges from a file path to itself included:
\* every computation that starts returns its instances.
C30_VisibleInstancesTerminates ==
    (phase = "computing") ~> (phase = "shown")


\* The part of C30 the component satisfies: when no expanded node reaches
\* itself over edges between expanded nodes, no computation exhausts the
\* stack.
expandedChildren(id) ==
    IF id \in query.expandedNodes
    THEN Range(getChildNodes(graph.nodes, graph.edges, id))
    ELSE {}

RECURSIVE expandedDescendants(_, _)
expandedDescendants(ids, d) ==
    IF d = 0 THEN ids
    ELSE expandedDescendants(ids \cup UNION {expandedChildren(id) : id \in ids}, d - 1)

expandedCycle ==
    \E id \in query.expandedNodes :
        id \in expandedDescendants(expandedChildren(id), Len(graph.nodes))

C30_OverflowOnlyOnExpandedCycle ==
    phase = "overflow" => expandedCycle

\* A computation over a shared child that returned: util.ts is shown below
\* index.ts and below app.ts.
C30_SharedChildShownTwice ==
    /\ phase = "shown"
    /\ query.expandedNodes = {IndexId, AppId}
    /\ Cardinality({k \in 1..Len(answer.visibleInstances) :
                       answer.visibleInstances[k].originalId = UtilId}) = 2

====
